---- MODULE Spec2Model ----
(***************************************************************************)
(* The search execution engine of the book editor's find/replace panel     *)
(* (src/src/calibre/gui2/tweak_book/search.py): pattern compilation and    *)
(* its cache, scope resolution, find, replace and replace-find, and the    *)
(* batch operations replace-all and count with their savepoint handling.   *)
(*                                                                         *)
(* Text is a sequence of one-character strings.  A document is named by a  *)
(* string; None stands for Python's None.                                  *)
(***************************************************************************)
EXTENDS Naturals, Sequences, FiniteSets, TLC

VARIABLES
    container,            \* persisted raw text of every document (current_container().raw_data)
    editors,              \* the editors registry: open document -> its live editor
    current_editor_name,  \* name of the document being edited, or None
    searchable_names,     \* the files browser's groups: where -> ordered names
    regex_cache,          \* the module-level regex_cache: key -> compiled pattern
    ncompiled,            \* how often regex.compile produced a pattern, per key
    savepoints,           \* the host's calls of add_savepoint and rewind_savepoint
    modified,             \* whether set_modified has been called
    panel,                \* the searches the search panel holds, filled in
    req,                  \* the request of the last operation
    res,                  \* what the last operation returned and did
    nops                  \* number of operations run so far

vars == <<container, editors, current_editor_name, searchable_names, regex_cache,
          ncompiled, savepoints, modified, panel, req, res, nops>>

None == "None"

-----------------------------------------------------------------------------
(* Bounds of the model *)

NumDocs == 3
MaxOps == 3
MaxCalls == 3

-----------------------------------------------------------------------------
(* Sequences *)

Range(s) == {s[i] : i \in 1..Len(s)}

Reverse(s) == [i \in 1..Len(s) |-> s[Len(s) + 1 - i]]

Front(s) == SubSeq(s, 1, Len(s) - 1)

Occurrences(s, x) == Cardinality({i \in 1..Len(s) : s[i] = x})

IndexOf(s, x) == CHOOSE i \in 1..Len(s) : s[i] = x /\ \A j \in 1..(i-1) : s[j] # x

DupFreeSeqs(S) ==
    {s \in UNION {[1..n -> S] : n \in 0..Cardinality(S)} :
        \A i, j \in 1..Len(s) : i # j => s[i] # s[j]}

IsPermutationOf(s, t) ==
    /\ Len(s) = Len(t)
    /\ \A x \in Range(s) \cup Range(t) : Occurrences(s, x) = Occurrences(t, x)

-----------------------------------------------------------------------------
(* The documents and the groups of the files browser *)

DocNames == <<"A", "B", "C", "D", "E">>

Names == {DocNames[i] : i \in 1..NumDocs}

GroupWheres == {"styles", "text", "selected"}

Wheres == {"current", "text", "styles", "selected", "selected-text"}

Directions == {"down", "up"}

-----------------------------------------------------------------------------
(* Pattern compilation: get_search_regex and the regex engine it drives *)

REGEX_FLAGS == {"VERSION1", "WORD", "FULLCASE", "MULTILINE", "UNICODE"}

\* the characters regex.escape(raw, special_only=True) puts a backslash before
MetaChars == {"(", ")", "[", "]", "{", "}", "?", "*", "+", "|", "^", "$", "\\", "."}

RECURSIVE regex_escape(_)
regex_escape(raw) ==
    IF raw = <<>> THEN <<>>
    ELSE (IF Head(raw) \in MetaChars THEN <<"\\", Head(raw)>> ELSE <<Head(raw)>>)
         \o regex_escape(Tail(raw))

\* The pattern language of the model: literal characters, backslash escapes,
\* the dot, and parentheses (which must balance).  An atom matches one
\* character; ParseRegex gives the atoms, or BadRegex when regex.compile
\* would raise regex.error.
BadRegex == <<[kind |-> "error", ch |-> ""]>>

RECURSIVE ParseFrom(_, _, _)
ParseFrom(raw, i, depth) ==
    IF i > Len(raw) THEN (IF depth = 0 THEN <<>> ELSE BadRegex)
    ELSE IF raw[i] = "\\" THEN
        IF i = Len(raw) THEN BadRegex
        ELSE LET rest == ParseFrom(raw, i + 2, depth)
             IN IF rest = BadRegex THEN BadRegex
                ELSE <<[kind |-> "lit", ch |-> raw[i + 1]]>> \o rest
    ELSE IF raw[i] = "(" THEN ParseFrom(raw, i + 1, depth + 1)
    ELSE IF raw[i] = ")" THEN
        IF depth = 0 THEN BadRegex ELSE ParseFrom(raw, i + 1, depth - 1)
    ELSE LET rest == ParseFrom(raw, i + 1, depth)
         IN IF rest = BadRegex THEN BadRegex
            ELSE <<[kind |-> IF raw[i] = "." THEN "any" ELSE "lit", ch |-> raw[i]]>> \o rest

ParseRegex(raw) == ParseFrom(raw, 1, 0)

\* regex.compile(raw, flags=flags): the compiled pattern, the serial telling
\* apart two objects compiled for the same key
regex_compile(raw, flags, serial) ==
    [flags |-> flags, pattern |-> raw, serial |-> serial]

SearchFlags(state) ==
    REGEX_FLAGS
    \cup (IF ~state.case_sensitive THEN {"IGNORECASE"} ELSE {})
    \cup (IF state.mode # "normal" /\ state.dot_all THEN {"DOTALL"} ELSE {})
    \cup (IF state.direction = "up" THEN {"REVERSE"} ELSE {})

SearchRaw(state) ==
    IF state.mode # "normal" THEN state.find ELSE regex_escape(state.find)

CacheKey(state) == [flags |-> SearchFlags(state), pattern |-> SearchRaw(state)]

CountOf(nc, key) == IF key \in DOMAIN nc THEN nc[key] ELSE 0

Extend(f, key, value) == [k \in DOMAIN f \cup {key} |-> IF k = key THEN value ELSE f[k]]

\* (variant) the key of a pattern that fails to compile is entered in the
\* cache all the same
compile_and_cache_failed_too(key, cache, nc) ==
    IF ParseRegex(key.pattern) = BadRegex
    THEN [raised |-> "InvalidRegex", hit |-> FALSE, ans |-> regex_compile(<<>>, {}, 0),
          regex_cache |-> Extend(cache, key, regex_compile(<<>>, {}, 0)),
          ncompiled |-> nc]
    ELSE [raised |-> "", hit |-> FALSE,
          ans |-> regex_compile(key.pattern, key.flags, CountOf(nc, key) + 1),
          regex_cache |-> Extend(cache, key,
                                 regex_compile(key.pattern, key.flags,
                                               CountOf(nc, key) + 1)),
          ncompiled |-> Extend(nc, key, CountOf(nc, key) + 1)]

\* regex_cache.get(key) found nothing: compile and insert, or raise
compile_and_cache(key, cache, nc) ==
    IF ParseRegex(key.pattern) = BadRegex
    THEN [raised |-> "InvalidRegex", hit |-> FALSE, ans |-> regex_compile(<<>>, {}, 0),
          regex_cache |-> cache, ncompiled |-> nc]
    ELSE [raised |-> "", hit |-> FALSE,
          ans |-> regex_compile(key.pattern, key.flags, CountOf(nc, key) + 1),
          regex_cache |-> Extend(cache, key,
                                 regex_compile(key.pattern, key.flags,
                                               CountOf(nc, key) + 1)),
          ncompiled |-> Extend(nc, key, CountOf(nc, key) + 1)]

\* (variant) the cache is not consulted: every call compiles and inserts
lookup_always_compile(key, cache, nc) == compile_and_cache(key, cache, nc)

lookup_or_compile(key, cache, nc) ==
    IF key \in DOMAIN cache
    THEN [raised |-> "", hit |-> TRUE, ans |-> cache[key], regex_cache |-> cache,
          ncompiled |-> nc]
    ELSE compile_and_cache(key, cache, nc)

\* get_search_regex(state) against the cache `cache`: the pattern returned (or
\* the InvalidRegex raised), and the cache and compile counts afterwards
get_search_regex(state, cache, nc) == lookup_or_compile(CacheKey(state), cache, nc)

-----------------------------------------------------------------------------
(* Scope resolution: initialize_search_request *)

\* (variant) only the wrap setting makes the traversal exhaustive
exhaustive_wrap_only(state, action) == state.wrap

\* (variant) the forward exhaustive order starts with the current document
reorder_current_first(files, current_name, direction, do_all) ==
    IF direction = "up"
    THEN Reverse(SubSeq(files, 1, IndexOf(files, current_name) - 1))
         \o (IF do_all
             THEN Reverse(SubSeq(files, IndexOf(files, current_name) + 1, Len(files)))
                  \o <<current_name>>
             ELSE <<>>)
    ELSE (IF do_all THEN <<current_name>> ELSE <<>>)
         \o SubSeq(files, IndexOf(files, current_name) + 1, Len(files))
         \o (IF do_all THEN SubSeq(files, 1, IndexOf(files, current_name) - 1) ELSE <<>>)

\* (variant) the backward exhaustive order keeps the files after the current
\* document in forward order
reorder_after_forward(files, current_name, direction, do_all) ==
    IF direction = "up"
    THEN Reverse(SubSeq(files, 1, IndexOf(files, current_name) - 1))
         \o (IF do_all
             THEN SubSeq(files, IndexOf(files, current_name) + 1, Len(files))
                  \o <<current_name>>
             ELSE <<>>)
    ELSE SubSeq(files, IndexOf(files, current_name) + 1, Len(files))
         \o (IF do_all
             THEN SubSeq(files, 1, IndexOf(files, current_name) - 1) \o <<current_name>>
             ELSE <<>>)

\* do_all = state['wrap'] or action in {'replace-all', 'count'}
exhaustive(state, action) == state.wrap \/ action \in {"replace-all", "count"}

\* (variant) the files on the other side of the current document and the
\* current document itself are appended without do_all too
reorder_always_all(files, current_name, direction, do_all) ==
    IF direction = "up"
    THEN Reverse(SubSeq(files, 1, IndexOf(files, current_name) - 1))
         \o Reverse(SubSeq(files, IndexOf(files, current_name) + 1, Len(files)))
         \o <<current_name>>
    ELSE SubSeq(files, IndexOf(files, current_name) + 1, Len(files))
         \o SubSeq(files, 1, IndexOf(files, current_name) - 1) \o <<current_name>>

\* the re-ordering of the files of a group the current document is a member of
reorder(files, current_name, direction, do_all) ==
    IF direction = "up"
    THEN Reverse(SubSeq(files, 1, IndexOf(files, current_name) - 1))
         \o (IF do_all
             THEN Reverse(SubSeq(files, IndexOf(files, current_name) + 1, Len(files)))
                  \o <<current_name>>
             ELSE <<>>)
    ELSE SubSeq(files, IndexOf(files, current_name) + 1, Len(files))
         \o (IF do_all
             THEN SubSeq(files, 1, IndexOf(files, current_name) - 1) \o <<current_name>>
             ELSE <<>>)

Scope(editor, where, files, do_all, marked) ==
    [editor |-> editor, where |-> where, files |-> files, do_all |-> do_all,
     marked |-> marked]

initialize_search_request(state, action, current_editor, current_name, names) ==
    IF state.where = "current"
    THEN Scope(current_editor, state.where, <<>>, exhaustive(state, action), FALSE)
    ELSE IF state.where \in {"styles", "text", "selected"}
    THEN IF current_name \in Range(names[state.where])
         THEN Scope(current_editor, state.where,
                    reorder(names[state.where], current_name, state.direction,
                            exhaustive(state, action)),
                    exhaustive(state, action), FALSE)
         ELSE Scope(None, state.where, names[state.where], exhaustive(state, action),
                    FALSE)
    ELSE Scope(current_editor, state.where, <<>>, exhaustive(state, action), TRUE)

-----------------------------------------------------------------------------
(* What a compiled pattern does to a text: search, findall, subn *)

\* simple case folding of the letters the model's texts use
Lower(c) ==
    CASE c = "F" -> "f" [] c = "O" -> "o" [] c = "B" -> "b"
      [] c = "A" -> "a" [] c = "R" -> "r" [] c = "Z" -> "z" [] OTHER -> c

Upper(c) ==
    CASE c = "f" -> "F" [] c = "o" -> "O" [] c = "b" -> "B"
      [] c = "a" -> "A" [] c = "r" -> "R" [] c = "z" -> "Z" [] OTHER -> c

AtomMatches(atom, c, flags) ==
    IF atom.kind = "any" THEN c # "\n" \/ "DOTALL" \in flags
    ELSE IF "IGNORECASE" \in flags THEN Lower(c) = Lower(atom.ch)
    ELSE c = atom.ch

\* whether the atoms match the text raw at position i (every pattern of the
\* model has at least one atom, so a match is never empty)
MatchesAt(atoms, flags, raw, i) ==
    /\ i >= 1
    /\ i + Len(atoms) - 1 <= Len(raw)
    /\ \A k \in 1..Len(atoms) : AtomMatches(atoms[k], raw[i + k - 1], flags)

RECURSIVE ScanDown(_, _, _, _)
ScanDown(atoms, flags, raw, i) ==
    IF i + Len(atoms) - 1 > Len(raw) THEN <<>>
    ELSE IF MatchesAt(atoms, flags, raw, i)
         THEN <<i>> \o ScanDown(atoms, flags, raw, i + Len(atoms))
         ELSE ScanDown(atoms, flags, raw, i + 1)

RECURSIVE ScanUp(_, _, _, _)
ScanUp(atoms, flags, raw, e) ==
    IF e - Len(atoms) + 1 < 1 THEN <<>>
    ELSE IF MatchesAt(atoms, flags, raw, e - Len(atoms) + 1)
         THEN <<e - Len(atoms) + 1>> \o ScanUp(atoms, flags, raw, e - Len(atoms))
         ELSE ScanUp(atoms, flags, raw, e - 1)

\* the start positions of the non-overlapping matches of p in raw, in the order
\* the engine finds them: from the right when the pattern has the REVERSE flag
finditer(p, raw) ==
    LET atoms == ParseRegex(p.pattern)
    IN IF "REVERSE" \in p.flags THEN ScanUp(atoms, p.flags, raw, Len(raw))
       ELSE ScanDown(atoms, p.flags, raw, 1)

\* len(p.findall(raw))
findall_len(p, raw) == Len(finditer(p, raw))

\* The registry of replace functions (function_replace.functions()): one
\* function, which upper-cases the matched text.
UpperCaseText == <<"U", "p", "p", "e", "r">>

replace_functions == {UpperCaseText}

\* the text a replacement puts in place of the match m: the template (the
\* model's templates hold no backslash, so no group reference), or what the
\* replace function returns
Expand(repl, m) ==
    IF repl.callable THEN [i \in 1..Len(m) |-> Upper(m[i])] ELSE repl.text

RECURSIVE Rebuild(_, _, _, _, _)
Rebuild(raw, i, starts, n, repl) ==
    IF i > Len(raw) THEN <<>>
    ELSE IF i \in starts
         THEN Expand(repl, SubSeq(raw, i, i + n - 1)) \o Rebuild(raw, i + n, starts, n, repl)
         ELSE <<raw[i]>> \o Rebuild(raw, i + 1, starts, n, repl)

substituted(found, n, repl, raw) ==
    [raw |-> Rebuild(raw, 1, Range(found), n, repl), num |-> Len(found)]

\* p.subn(repl, raw): the new text and the number of substitutions made
subn(p, repl, raw) == substituted(finditer(p, raw), Len(ParseRegex(p.pattern)), repl, raw)

\* get_search_function(search): the replacement, or NoSuchFunction
get_search_function(srch) ==
    IF srch.mode = "function"
    THEN IF srch.replace \in replace_functions
         THEN [raised |-> "", callable |-> TRUE, text |-> srch.replace]
         ELSE [raised |-> "NoSuchFunction", callable |-> FALSE, text |-> srch.replace]
    ELSE [raised |-> "", callable |-> FALSE, text |-> srch.replace]

Pair(r, f) == [p |-> r.ans, repl |-> [callable |-> f.callable, text |-> f.text]]

Raised(r, f) == IF r.raised # "" THEN r.raised ELSE f.raised

prepend_pair(pair, rest) ==
    [raised |-> rest.raised,
     searches |-> IF rest.raised # "" THEN <<>> ELSE <<pair>> \o rest.searches,
     regex_cache |-> rest.regex_cache, ncompiled |-> rest.ncompiled]

\* run_search's compilation of all the searches of a request, in request
\* order, stopping at the first that raises: the (pattern, replacement) pairs
\* and the cache afterwards
RECURSIVE compile_searches(_, _, _)
compile_rest(r, f, searches) ==
    IF Raised(r, f) # ""
    THEN [raised |-> Raised(r, f), searches |-> <<>>,
          regex_cache |-> r.regex_cache, ncompiled |-> r.ncompiled]
    ELSE prepend_pair(Pair(r, f),
                      compile_searches(Tail(searches), r.regex_cache, r.ncompiled))

\* (variant) only the first search of the request is compiled and used
compile_first_only(searches, cache, nc) ==
    IF searches = <<>>
    THEN [raised |-> "", searches |-> <<>>, regex_cache |-> cache, ncompiled |-> nc]
    ELSE compile_rest(get_search_regex(Head(searches), cache, nc),
                      get_search_function(Head(searches)), <<Head(searches)>>)

compile_searches(searches, cache, nc) ==
    IF searches = <<>>
    THEN [raised |-> "", searches |-> <<>>, regex_cache |-> cache, ncompiled |-> nc]
    ELSE compile_rest(get_search_regex(Head(searches), cache, nc),
                      get_search_function(Head(searches)), searches)

-----------------------------------------------------------------------------
(* The editor of an open document: its live text, its marked region (<<>>  *)
(* when no text is marked, else <<first, last>>), its cursor (the number   *)
(* of characters before it) and its selection, which is the current match *)
(* (<<>> when nothing is selected, else <<first, last>>)                   *)

\* an editor as it is when a text has just been loaded into it
Editor(raw, marked) == [raw |-> raw, marked |-> marked, cursor |-> 0, sel |-> <<>>]

has_marked_text(eds, name) ==
    name \in DOMAIN eds /\ eds[name].marked # <<>>

MarkedText(ed) == SubSeq(ed.raw, ed.marked[1], ed.marked[2])

marked_replaced(ed, r) ==
    IF r.num > 0
    THEN [editor |->
            Editor(SubSeq(ed.raw, 1, ed.marked[1] - 1) \o r.raw
                     \o SubSeq(ed.raw, ed.marked[2] + 1, Len(ed.raw)),
                   <<ed.marked[1], ed.marked[1] + Len(r.raw) - 1>>),
          count |-> r.num]
    ELSE [editor |-> ed, count |-> 0]

\* editor.all_in_marked(p, repl): substitutes inside the marked region, which
\* then spans the new text; gives the editor afterwards and the count
all_in_marked(ed, p, repl) ==
    IF ed.marked = <<>> THEN [editor |-> ed, count |-> 0]
    ELSE marked_replaced(ed, subn(p, repl, MarkedText(ed)))

\* editor.all_in_marked(p): counts inside the marked region
count_in_marked(ed, p) ==
    IF ed.marked = <<>> THEN 0 ELSE findall_len(p, MarkedText(ed))

\* editor.replace_data(raw): the whole text is replaced, no text stays marked
replace_data(ed, raw) == Editor(raw, <<>>)

\* the part of the text editor.find searches: the marked region or the whole
\* text, all of it for a complete search or a wraparound one, else what lies
\* beyond the cursor in the direction of the search
find_region(ed, reverse, wrap, marked, complete) ==
    IF marked /\ ed.marked = <<>> THEN <<1, 0>>
    ELSE IF complete \/ wrap
    THEN IF marked THEN ed.marked ELSE <<1, Len(ed.raw)>>
    ELSE IF reverse
    THEN <<IF marked THEN ed.marked[1] ELSE 1,
           IF marked /\ ed.marked[2] < ed.cursor THEN ed.marked[2] ELSE ed.cursor>>
    ELSE <<IF marked /\ ed.marked[1] > ed.cursor + 1 THEN ed.marked[1] ELSE ed.cursor + 1,
           IF marked THEN ed.marked[2] ELSE Len(ed.raw)>>

first_of(starts, reverse) ==
    IF starts = {} THEN 0
    ELSE IF reverse THEN CHOOSE i \in starts : \A j \in starts : j <= i
    ELSE CHOOSE i \in starts : \A j \in starts : i <= j

\* the start of the match pat.search finds in raw[region], 0 when there is none
search_in(atoms, flags, raw, region) ==
    first_of({i \in region[1]..(region[2] - Len(atoms) + 1) :
                 MatchesAt(atoms, flags, raw, i)},
             "REVERSE" \in flags)

\* p.search(raw) is not None
search(p, raw) == search_in(ParseRegex(p.pattern), p.flags, raw, <<1, Len(raw)>>) # 0

found_at(ed, i, n, reverse) ==
    IF i = 0 THEN [found |-> FALSE, editor |-> ed]
    ELSE [found |-> TRUE,
          editor |-> [ed EXCEPT !.sel = <<i, i + n - 1>>,
                                !.cursor = IF reverse THEN i - 1 ELSE i + n - 1]]

\* editor.find(p, wrap, marked, complete): selects the next match and moves
\* the cursor past it; gives whether one was found and the editor afterwards
editor_find(ed, p, wrap, marked, complete) ==
    found_at(ed,
             search_in(ParseRegex(p.pattern), p.flags, ed.raw,
                       find_region(ed, "REVERSE" \in p.flags, wrap, marked, complete)),
             Len(ParseRegex(p.pattern)), "REVERSE" \in p.flags)

\* the editor after the selection has been replaced by text: the cursor is
\* behind the new text, nothing is selected, and a marked region that holds
\* the selection spans the new text too (any other marked region is dropped)
selection_replaced(ed, text) ==
    [raw |-> SubSeq(ed.raw, 1, ed.sel[1] - 1) \o text
               \o SubSeq(ed.raw, ed.sel[2] + 1, Len(ed.raw)),
     marked |-> IF ed.marked # <<>> /\ ed.marked[1] <= ed.sel[1]
                     /\ ed.sel[2] <= ed.marked[2]
                THEN <<ed.marked[1], ed.marked[2] + Len(text) + ed.sel[1] - ed.sel[2] - 1>>
                ELSE <<>>,
     cursor |-> ed.sel[1] - 1 + Len(text),
     sel |-> <<>>]

\* editor.replace(p, repl): replaces the selected text if the pattern matches
\* all of it; gives whether it did and the editor afterwards
editor_replace(ed, p, repl) ==
    IF /\ ed.sel # <<>>
       /\ ed.sel[2] - ed.sel[1] + 1 = Len(ParseRegex(p.pattern))
       /\ MatchesAt(ParseRegex(p.pattern), p.flags, ed.raw, ed.sel[1])
    THEN [replaced |-> TRUE,
          editor |-> selection_replaced(ed, Expand(repl, SubSeq(ed.raw, ed.sel[1], ed.sel[2])))]
    ELSE [replaced |-> FALSE, editor |-> ed]

Call(op, name, k) == [op |-> op, name |-> name, k |-> k]

-----------------------------------------------------------------------------
(* validate_search_request: the error shown, "" when the request is valid *)

\* (variant) the find text is checked before the scope
validate_query_first(name, names, marked_text, state) ==
    IF state.find = <<>> THEN "No search query specified"
    ELSE IF name = None /\ state.where \in {"current", "selected-text"}
    THEN "No file is being edited."
    ELSE IF state.where = "selected" /\ names["selected"] = <<>>
    THEN "No files are selected in the Files Browser"
    ELSE IF state.where = "selected-text" /\ ~marked_text
    THEN "No text is marked."
    ELSE ""

validate_search_request(name, names, marked_text, state) ==
    LET where == state.where
        err == IF name = None /\ where \in {"current", "selected-text"}
               THEN "No file is being edited."
               ELSE IF where = "selected" /\ names["selected"] = <<>>
               THEN "No files are selected in the Files Browser"
               ELSE IF where = "selected-text" /\ ~marked_text
               THEN "No text is marked."
               ELSE ""
    IN IF err = "" /\ state.find = <<>> THEN "No search query specified" ELSE err

-----------------------------------------------------------------------------
(* run_search: the batch operations *)

\* (variant) the count is overwritten by each file's number, not added to
file_done_last_count(replace, k, n, acc, r) ==
    [raw_data |-> IF replace /\ r.num > 0 THEN [acc.raw_data EXCEPT ![n] = r.raw]
                  ELSE acc.raw_data,
     updates |-> IF replace /\ r.num > 0 THEN acc.updates \cup {n} ELSE acc.updates,
     count |-> r.num,
     calls |-> Append(acc.calls, Call(IF replace THEN "subn" ELSE "findall", n, k))]

\* (variant) a text is written back as soon as a pair has changed it
file_done_eager_write(replace, k, n, acc, r) ==
    [raw_data |-> IF replace /\ r.num > 0 THEN [acc.raw_data EXCEPT ![n] = r.raw]
                  ELSE acc.raw_data,
     updates |-> IF replace /\ r.num > 0 THEN acc.updates \cup {n} ELSE acc.updates,
     count |-> acc.count + r.num,
     calls |-> acc.calls \o <<Call(IF replace THEN "subn" ELSE "findall", n, k)>>
               \o (IF replace /\ r.num > 0 THEN <<Call("write", n, 0)>> ELSE <<>>)]

\* the body of do_all's inner loop for the file n, r being what subn or
\* findall gave for its text
file_done(replace, k, n, acc, r) ==
    [raw_data |-> IF replace /\ r.num > 0 THEN [acc.raw_data EXCEPT ![n] = r.raw]
                  ELSE acc.raw_data,
     updates |-> IF replace /\ r.num > 0 THEN acc.updates \cup {n} ELSE acc.updates,
     count |-> acc.count + r.num,
     calls |-> Append(acc.calls, Call(IF replace THEN "subn" ELSE "findall", n, k))]

\* one pass of do_all's inner loop: the pair number k applied to the texts of
\* lfiles[i..], in order
RECURSIVE apply_to_files(_, _, _, _, _, _)
apply_to_files(replace, srch, k, lfiles, i, acc) ==
    IF i > Len(lfiles) THEN acc
    ELSE apply_to_files(replace, srch, k, lfiles, i + 1,
            file_done(replace, k, lfiles[i], acc,
                      IF replace THEN subn(srch.p, srch.repl, acc.raw_data[lfiles[i]])
                      ELSE [raw |-> acc.raw_data[lfiles[i]],
                            num |-> findall_len(srch.p, acc.raw_data[lfiles[i]])]))

\* do_all's outer loop: the pairs searches[k..], in request order
RECURSIVE apply_searches(_, _, _, _, _)
\* (variant) the pairs are applied from the last of the request to the first
apply_searches_last_first(replace, searches, k, lfiles, acc) ==
    IF k > Len(searches) THEN acc
    ELSE apply_to_files(replace, searches[k], k, lfiles, 1,
            apply_searches(replace, searches, k + 1, lfiles,
                IF searches[k].repl.callable
                THEN [acc EXCEPT !.calls = Append(@, Call("init_env", None, k))]
                ELSE acc))

apply_searches(replace, searches, k, lfiles, acc) ==
    IF k > Len(searches) THEN acc
    ELSE apply_searches(replace, searches, k + 1, lfiles,
            apply_to_files(replace, searches[k], k, lfiles, 1,
                IF searches[k].repl.callable
                THEN [acc EXCEPT !.calls = Append(@, Call("init_env", None, k))]
                ELSE acc))

\* do_all's reading of the text of every file of the scope
read_files(lfiles, eds, cont) ==
    [raw_data |-> [n \in Range(lfiles) |->
                     IF n \in DOMAIN eds THEN eds[n].raw ELSE cont[n]],
     updates |-> {}, count |-> 0,
     calls |-> [i \in 1..Len(lfiles) |->
                  Call(IF lfiles[i] \in DOMAIN eds THEN "get_raw_data" ELSE "raw_data",
                       lfiles[i], 0)]]

\* (variant) the changed text of an open document is written to its editor and
\* to persisted storage
write_updates_both(read, done, eds, cont, order) ==
    [count |-> done.count, read |-> read.raw_data, updates |-> done.updates,
     calls |-> done.calls
               \o [i \in 1..Len(order) |->
                     Call(IF order[i] \in DOMAIN eds THEN "replace_data" ELSE "write",
                          order[i], 0)],
     editors |-> [n \in DOMAIN eds |->
                    IF n \in Range(order) THEN replace_data(eds[n], done.raw_data[n])
                    ELSE eds[n]],
     container |-> [n \in DOMAIN cont |->
                      IF n \in Range(order) THEN done.raw_data[n] ELSE cont[n]]]

\* (variant) only open documents are written back, persisted files are not
write_updates_editors_only(read, done, eds, cont, order) ==
    [count |-> done.count, read |-> read.raw_data, updates |-> done.updates,
     calls |-> done.calls
               \o [i \in 1..Len(order) |->
                     Call(IF order[i] \in DOMAIN eds THEN "replace_data" ELSE "write",
                          order[i], 0)],
     editors |-> [n \in DOMAIN eds |->
                    IF n \in Range(order) THEN replace_data(eds[n], done.raw_data[n])
                    ELSE eds[n]],
     container |-> cont]

\* do_all's writing back of the changed texts, in the order `order` (the
\* iteration order of the set `updates`)
write_updates(read, done, eds, cont, order) ==
    [count |-> done.count, read |-> read.raw_data, updates |-> done.updates,
     calls |-> done.calls
               \o [i \in 1..Len(order) |->
                     Call(IF order[i] \in DOMAIN eds THEN "replace_data" ELSE "write",
                          order[i], 0)],
     editors |-> [n \in DOMAIN eds |->
                    IF n \in Range(order) THEN replace_data(eds[n], done.raw_data[n])
                    ELSE eds[n]],
     container |-> [n \in DOMAIN cont |->
                      IF n \in Range(order) /\ n \notin DOMAIN eds
                      THEN done.raw_data[n] ELSE cont[n]]]

do_all_files(replace, lfiles, searches, eds, cont, order, read) ==
    write_updates(read, apply_searches(replace, searches, 1, lfiles, read),
                  eds, cont, order)

\* do_all(replace): reads the text of every file of the scope, applies every
\* pair to every text, then writes the changed texts back.  Gives the count
\* returned, what was read, changed and called, and the documents afterwards.
do_all(replace, files, editor, current_name, searches, eds, cont, order) ==
    IF files = <<>> /\ editor = None
    THEN [count |-> 0, read |-> <<>>, updates |-> {}, calls |-> <<>>,
          editors |-> eds, container |-> cont]
    ELSE do_all_files(replace, IF files # <<>> THEN files ELSE <<current_name>>,
                      searches, eds, cont, order,
                      read_files(IF files # <<>> THEN files ELSE <<current_name>>,
                                 eds, cont))

marked_done(acc, name, k, r) ==
    [editor |-> r.editor, count |-> acc.count + r.count,
     calls |-> Append(acc.calls, Call("all_in_marked", name, k))]

\* the sum over the pairs of editor.all_in_marked(p, repl), each pair acting
\* on the editor the previous one left
RECURSIVE replace_in_marked(_, _, _, _)
replace_in_marked(name, searches, k, acc) ==
    IF k > Len(searches) THEN acc
    ELSE replace_in_marked(name, searches, k + 1,
            marked_done(acc, name, k,
                        all_in_marked(acc.editor, searches[k].p, searches[k].repl)))

\* the sum over the pairs of editor.all_in_marked(p)
RECURSIVE count_marked(_, _, _, _)
count_marked(name, searches, k, acc) ==
    IF k > Len(searches) THEN acc
    ELSE count_marked(name, searches, k + 1,
            [editor |-> acc.editor,
             count |-> acc.count + count_in_marked(acc.editor, searches[k].p),
             calls |-> Append(acc.calls, Call("count_in_marked", name, k))])

\* what a call of run_search did: the scope it resolved, how it ended, and the
\* calls it made to the editors, the container and the host, in order
Outcome(action, outcome, error, scope, count, read, updates, calls, replaced, found) ==
    [op |-> "run_search", action |-> action, outcome |-> outcome, error |-> error,
     editor |-> scope.editor, files |-> scope.files, do_all |-> scope.do_all,
     marked |-> scope.marked, count |-> count, read |-> read,
     updates |-> updates, calls |-> calls, replaced |-> replaced, found |-> found]

Result(action, outcome, error, scope, count, read, updates, calls) ==
    Outcome(action, outcome, error, scope, count, read, updates, calls, FALSE, FALSE)

-----------------------------------------------------------------------------
(* run_search: find, replace and replace-find *)

\* do_find after the editor of fname was asked to find the pair k: r is what
\* the editor answered; show says whether show_editor follows a success
find_tried(st, fname, call, r, show) ==
    [editors |-> Extend(st.editors, fname, r.editor),
     current |-> IF r.found /\ show THEN fname ELSE st.current,
     found |-> r.found,
     calls |-> st.calls \o <<call>>
               \o (IF r.found /\ show THEN <<Call("show_editor", fname, 0)>> ELSE <<>>)]

\* (variant) the current editor is skipped in the loop over files with wrap too
find_in_file_skip_current(p, k, fname, st, cont, wrap, editor) ==
    IF fname \in DOMAIN st.editors
    THEN IF fname = editor THEN st
         ELSE find_tried(st, fname, Call("find_complete", fname, k),
                         editor_find(st.editors[fname], p, FALSE, FALSE, TRUE), TRUE)
    ELSE IF search(p, cont[fname])
    THEN find_tried([st EXCEPT !.current = fname,
                               !.calls = @ \o <<Call("raw_data", fname, k),
                                                Call("edit_file", fname, 0)>>],
                    fname, Call("find_complete", fname, k),
                    editor_find(Editor(cont[fname], <<>>), p, FALSE, FALSE, TRUE), FALSE)
    ELSE [st EXCEPT !.calls = Append(@, Call("raw_data", fname, k))]

\* (variant) a document that is not open is opened without a look at its
\* persisted text
find_in_file_load_always(p, k, fname, st, cont, wrap, editor) ==
    IF fname \in DOMAIN st.editors
    THEN IF ~wrap /\ fname = editor THEN st
         ELSE find_tried(st, fname, Call("find_complete", fname, k),
                         editor_find(st.editors[fname], p, FALSE, FALSE, TRUE), TRUE)
    ELSE find_tried([st EXCEPT !.current = fname,
                               !.calls = @ \o <<Call("raw_data", fname, k),
                                                Call("edit_file", fname, 0)>>],
                    fname, Call("find_complete", fname, k),
                    editor_find(Editor(cont[fname], <<>>), p, FALSE, FALSE, TRUE), FALSE)

\* do_find, body of the loop over files: an open document is searched
\* completely in its editor (the current one is skipped without wrap); a
\* document that is not open is opened only if its persisted text matches
find_in_file(p, k, fname, st, cont, wrap, editor) ==
    IF fname \in DOMAIN st.editors
    THEN IF ~wrap /\ fname = editor THEN st
         ELSE find_tried(st, fname, Call("find_complete", fname, k),
                         editor_find(st.editors[fname], p, FALSE, FALSE, TRUE), TRUE)
    ELSE IF search(p, cont[fname])
    THEN find_tried([st EXCEPT !.current = fname,
                               !.calls = @ \o <<Call("raw_data", fname, k),
                                                Call("edit_file", fname, 0)>>],
                    fname, Call("find_complete", fname, k),
                    editor_find(Editor(cont[fname], <<>>), p, FALSE, FALSE, TRUE), FALSE)
    ELSE [st EXCEPT !.calls = Append(@, Call("raw_data", fname, k))]

RECURSIVE find_in_files(_, _, _, _, _, _, _, _)
find_in_files(p, k, files, i, st, cont, wrap, editor) ==
    IF st.found \/ i > Len(files) THEN st
    ELSE find_in_files(p, k, files, i + 1,
                       find_in_file(p, k, files[i], st, cont, wrap, editor),
                       cont, wrap, editor)

\* do_find: the retry in the current editor with wrap=True, made only when
\* the scope has no files
find_wrapped(p, k, st, scope, wrap) ==
    IF st.found \/ ~wrap \/ scope.files # <<>> THEN st
    ELSE find_tried(st, scope.editor, Call("find_wrap", scope.editor, k),
                    editor_find(st.editors[scope.editor], p, TRUE, scope.marked, FALSE),
                    FALSE)

\* do_find: the search in the current editor, from its cursor
find_in_place(p, k, st, scope, wrap) ==
    IF scope.editor = None THEN st
    ELSE find_wrapped(p, k,
            find_tried(st, scope.editor, Call("find", scope.editor, k),
                       editor_find(st.editors[scope.editor], p, FALSE, scope.marked, FALSE),
                       FALSE),
            scope, wrap)

RECURSIVE find_pairs(_, _, _, _, _, _)
\* (variant) a pair that found a match does not end the loop over the pairs
find_pairs_no_stop(searches, k, st, scope, wrap, cont) ==
    IF k > Len(searches) THEN st
    ELSE find_pairs(searches, k + 1,
                    find_in_files(searches[k].p, k, scope.files, 1,
                                  find_in_place(searches[k].p, k, st, scope, wrap),
                                  cont, wrap, scope.editor),
                    scope, wrap, cont)

find_pairs(searches, k, st, scope, wrap, cont) ==
    IF st.found \/ k > Len(searches) THEN st
    ELSE find_pairs(searches, k + 1,
                    find_in_files(searches[k].p, k, scope.files, 1,
                                  find_in_place(searches[k].p, k, st, scope, wrap),
                                  cont, wrap, scope.editor),
                    scope, wrap, cont)

\* do_find(): the pairs are tried in order, each in the current editor and then
\* in the files of the scope; the first match ends it
do_find(searches, scope, wrap, eds, current, cont, calls) ==
    find_pairs(searches, 1,
               [editors |-> eds, current |-> current, found |-> FALSE, calls |-> calls],
               scope, wrap, cont)

replace_tried(st, name, k, callable, r) ==
    [editor |-> r.editor, replaced |-> r.replaced,
     calls |-> st.calls
               \o (IF callable THEN <<Call("init_env", name, k)>> ELSE <<>>)
               \o <<Call("replace", name, k)>>]

RECURSIVE replace_pairs(_, _, _, _)
\* (variant) a pair that replaced the selection does not end the loop
replace_pairs_all(searches, k, name, st) ==
    IF k > Len(searches) THEN st
    ELSE replace_pairs(searches, k + 1, name,
            replace_tried(st, name, k, searches[k].repl.callable,
                          editor_replace(st.editor, searches[k].p, searches[k].repl)))

replace_pairs(searches, k, name, st) ==
    IF st.replaced \/ k > Len(searches) THEN st
    ELSE replace_pairs(searches, k + 1, name,
            replace_tried(st, name, k, searches[k].repl.callable,
                          editor_replace(st.editor, searches[k].p, searches[k].repl)))

replace_done(eds, name, st) ==
    [replaced |-> st.replaced, editors |-> [eds EXCEPT ![name] = st.editor],
     calls |-> st.calls,
     error |-> IF st.replaced THEN ""
               ELSE "Currently selected text does not match the search query. You must first click Find, before trying to replace"]

\* do_replace(): the pairs are tried in order on the selection of the current
\* editor; the first that replaces it ends it
do_replace(searches, scope, eds) ==
    IF scope.editor = None
    THEN [replaced |-> FALSE, editors |-> eds, calls |-> <<>>,
          error |-> "You must first click Find, before trying to replace"]
    ELSE replace_done(eds, scope.editor,
            replace_pairs(searches, 1, scope.editor,
                [editor |-> eds[scope.editor], replaced |-> FALSE, calls |-> <<>>]))

\* (variant) a find that fails leaves the editors as they were before the
\* operation, a replacement made by it undone
did_find_undoing(action, scope, host, f, replaced) ==
    [host |-> IF f.found THEN [host EXCEPT !.editors = f.editors, !.current = f.current]
              ELSE host,
     res |-> Outcome(action, IF f.found THEN "found" ELSE "no_match",
                     IF f.found THEN "" ELSE "No matches were found",
                     scope, 0, <<>>, {}, f.calls, replaced, f.found)]

\* action == 'find'
did_find(action, scope, host, f, replaced) ==
    [host |-> [host EXCEPT !.editors = f.editors, !.current = f.current],
     res |-> Outcome(action, IF f.found THEN "found" ELSE "no_match",
                     IF f.found THEN "" ELSE "No matches were found",
                     scope, 0, <<>>, {}, f.calls, replaced, f.found)]

\* action == 'replace'
did_replace(action, scope, host, r) ==
    [host |-> [host EXCEPT !.editors = r.editors],
     res |-> Outcome(action, IF r.replaced THEN "replaced" ELSE "no_replace", r.error,
                     scope, 0, <<>>, {}, r.calls, r.replaced, FALSE)]

\* (variant) do_find() runs whether or not the replace succeeded
replace_find_always(action, scope, host, r, searches, wrap) ==
    did_find(action, scope, host,
             do_find(searches, scope, wrap, r.editors, host.current, host.container,
                     r.calls),
             r.replaced)

\* action == 'replace-find' and do_replace(): do_find() runs only after a
\* replace that succeeded
replace_find(action, scope, host, r, searches, wrap) ==
    IF r.replaced
    THEN did_find(action, scope, host,
               do_find(searches, scope, wrap, r.editors, host.current, host.container,
                       r.calls),
               TRUE)
    ELSE did_replace(action, scope, host, r)


\* (variant) replace-all over the marked text takes a savepoint and marks the
\* book modified when something was replaced
replace_all_marked_with_savepoint(action, scope, host, m) ==
    [host |-> [host EXCEPT
                 !.editors[scope.editor] = m.editor,
                 !.savepoints = [added |-> @.added + 1,
                                 rewound |-> IF m.count = 0 THEN @.rewound + 1
                                             ELSE @.rewound],
                 !.modified = IF m.count = 0 THEN @ ELSE TRUE],
     res |-> Result(action, "done", "", scope, m.count, <<>>, {},
                    <<Call("add_savepoint", None, 0)>> \o m.calls
                    \o <<Call(IF m.count = 0 THEN "rewind_savepoint" ELSE "set_modified",
                              None, 0)>>)]

\* replace-all over the marked text: no savepoint is taken
replace_all_marked(action, scope, host, m) ==
    [host |-> [host EXCEPT !.editors[scope.editor] = m.editor],
     res |-> Result(action, "done", "", scope, m.count, <<>>, {}, m.calls)]

\* (variant) the savepoint is rewound when something was replaced and kept
\* when nothing was
replace_all_swapped(action, scope, host, d) ==
    [host |-> [host EXCEPT
                 !.editors = d.editors,
                 !.container = d.container,
                 !.savepoints = [added |-> @.added + 1,
                                 rewound |-> IF d.count # 0 THEN @.rewound + 1
                                             ELSE @.rewound],
                 !.modified = IF d.count # 0 THEN @ ELSE TRUE],
     res |-> Result(action, "done", "", scope, d.count, d.read, d.updates,
                    <<Call("add_savepoint", None, 0)>> \o d.calls
                    \o <<Call(IF d.count # 0 THEN "rewind_savepoint" ELSE "set_modified",
                              None, 0)>>)]

\* (variant) the savepoint is added after do_all has run
replace_all_late_savepoint(action, scope, host, d) ==
    [host |-> [host EXCEPT
                 !.editors = d.editors,
                 !.container = d.container,
                 !.savepoints = [added |-> @.added + 1,
                                 rewound |-> IF d.count = 0 THEN @.rewound + 1
                                             ELSE @.rewound],
                 !.modified = IF d.count = 0 THEN @ ELSE TRUE],
     res |-> Result(action, "done", "", scope, d.count, d.read, d.updates,
                    d.calls \o <<Call("add_savepoint", None, 0)>>
                    \o <<Call(IF d.count = 0 THEN "rewind_savepoint" ELSE "set_modified",
                              None, 0)>>)]

\* (variant) the savepoint is kept when nothing was replaced
replace_all_kept_savepoint(action, scope, host, d) ==
    [host |-> [host EXCEPT
                 !.editors = d.editors,
                 !.container = d.container,
                 !.savepoints = [added |-> @.added + 1, rewound |-> @.rewound],
                 !.modified = IF d.count = 0 THEN @ ELSE TRUE],
     res |-> Result(action, "done", "", scope, d.count, d.read, d.updates,
                    <<Call("add_savepoint", None, 0)>> \o d.calls
                    \o (IF d.count = 0 THEN <<>> ELSE <<Call("set_modified", None, 0)>>))]

\* replace-all: add_savepoint, do_all, then rewind_savepoint or set_modified
replace_all(action, scope, host, d) ==
    [host |-> [host EXCEPT
                 !.editors = d.editors,
                 !.container = d.container,
                 !.savepoints = [added |-> @.added + 1,
                                 rewound |-> IF d.count = 0 THEN @.rewound + 1
                                             ELSE @.rewound],
                 !.modified = IF d.count = 0 THEN @ ELSE TRUE],
     res |-> Result(action, "done", "", scope, d.count, d.read, d.updates,
                    <<Call("add_savepoint", None, 0)>> \o d.calls
                    \o <<Call(IF d.count = 0 THEN "rewind_savepoint" ELSE "set_modified",
                              None, 0)>>)]

\* count over the marked text
count_all_marked(action, scope, host, m) ==
    [host |-> host,
     res |-> Result(action, "done", "", scope, m.count, <<>>, {}, m.calls)]

\* (variant) count takes a savepoint and marks the book modified, as
\* replace-all does
count_all_modifying(action, scope, host, d) ==
    [host |-> [host EXCEPT !.editors = d.editors, !.container = d.container,
                           !.savepoints = [added |-> @.added + 1, rewound |-> @.rewound],
                           !.modified = TRUE],
     res |-> Result(action, "done", "", scope, d.count, d.read, d.updates,
                    <<Call("add_savepoint", None, 0)>> \o d.calls
                    \o <<Call("set_modified", None, 0)>>)]

\* count: do_all(replace=False)
count_all(action, scope, host, d) ==
    [host |-> [host EXCEPT !.editors = d.editors, !.container = d.container],
     res |-> Result(action, "done", "", scope, d.count, d.read, d.updates, d.calls)]

\* run_search after the compilation of the searches
run_compiled(action, current_name, scope, compiled, wrap, host, order) ==
    IF compiled.raised # ""
    THEN [host |-> host,
          res |-> Result(action, "error", compiled.raised, scope, 0, <<>>, {}, <<>>)]
    ELSE IF action = "find"
    THEN did_find(action, scope, host,
               do_find(compiled.searches, scope, wrap, host.editors, host.current,
                       host.container, <<>>),
               FALSE)
    ELSE IF action = "replace"
    THEN did_replace(action, scope, host, do_replace(compiled.searches, scope, host.editors))
    ELSE IF action = "replace-find"
    THEN replace_find(action, scope, host,
                      do_replace(compiled.searches, scope, host.editors),
                      compiled.searches, wrap)
    ELSE IF action = "replace-all" /\ scope.marked
    THEN replace_all_marked(action, scope, host,
            replace_in_marked(scope.editor, compiled.searches, 1,
                [editor |-> host.editors[scope.editor], count |-> 0, calls |-> <<>>]))
    ELSE IF action = "replace-all"
    THEN replace_all(action, scope, host,
            do_all(TRUE, scope.files, scope.editor, current_name, compiled.searches,
                   host.editors, host.container, order))
    ELSE IF scope.marked
    THEN count_all_marked(action, scope, host,
            count_marked(scope.editor, compiled.searches, 1,
                [editor |-> host.editors[scope.editor], count |-> 0, calls |-> <<>>]))
    ELSE count_all(action, scope, host,
            do_all(FALSE, scope.files, scope.editor, current_name, compiled.searches,
                   host.editors, host.container, order))

with_cache(host, compiled) ==
    [host EXCEPT !.regex_cache = compiled.regex_cache, !.ncompiled = compiled.ncompiled]

run_scoped(action, current_name, scope, compiled, wrap, host, order) ==
    run_compiled(action, current_name, scope, compiled, wrap,
                 with_cache(host, compiled), order)

\* run_search(searches, action, ...).  host is the state it runs in: the
\* editors and which of them is the current one, the container, the pattern
\* cache and the savepoint calls made so far.
run_search(searches, action, current_name, names, host, order) ==
    run_scoped(action, current_name,
               initialize_search_request(searches[1], action, current_name,
                                         current_name, names),
               compile_searches(searches, host.regex_cache, host.ncompiled),
               searches[1].wrap, host, order)

-----------------------------------------------------------------------------
(* The book of the model, its searches and the states it starts in *)

BookNames == {"A", "B", "C"}

foo == <<"f", "o", "o">>
bar == <<"b", "a", "r">>
baz == <<"b", "a", "z">>
foo_bar == foo \o <<" ">> \o bar
bar_foo == bar \o <<" ">> \o foo
Foo == <<"F", "o", "o">>

BookText == [n \in BookNames |->
                IF n = "A" THEN foo_bar ELSE IF n = "B" THEN bar_foo ELSE Foo]

Search(find, replace, mode, case_sensitive) ==
    [find |-> find, replace |-> replace, mode |-> mode,
     case_sensitive |-> case_sensitive, dot_all |-> FALSE]

FooToBaz == Search(foo, baz, "normal", TRUE)
BarToFoo == Search(bar, foo, "normal", TRUE)
OToOo == Search(<<"o">>, <<"o", "o">>, "regex", FALSE)

Parens == Search(<<"(">>, baz, "regex", TRUE)
UpperFoo == Search(foo, UpperCaseText, "function", FALSE)
NoSuchFn == Search(foo, <<"n", "o">>, "function", FALSE)

FooToBazAnyCase == Search(foo, baz, "normal", FALSE)

NoFind == Search(<<>>, baz, "normal", TRUE)

BazToFoo == Search(baz, foo, "normal", TRUE)

SearchLists ==
    {<<FooToBaz>>, <<BarToFoo>>, <<FooToBazAnyCase>>, <<OToOo>>,
     <<FooToBaz, BarToFoo>>, <<BarToFoo, FooToBaz>>,
     <<UpperFoo>>, <<FooToBaz, Parens>>, <<Parens, FooToBaz>>,
     <<FooToBaz, NoSuchFn>>, <<NoFind>>, <<BazToFoo, BarToFoo>>}

\* fill_in_search: every search of a request gets the panel's wrap, direction
\* and where
fill_in_search(srch, where, direction, wrap) ==
    [find |-> srch.find, replace |-> srch.replace, mode |-> srch.mode,
     case_sensitive |-> srch.case_sensitive, dot_all |-> srch.dot_all,
     direction |-> direction, wrap |-> wrap, where |-> where]

Requests ==
    {[i \in 1..Len(l) |-> fill_in_search(l[i], w, d, wr)] :
        l \in SearchLists, w \in Wheres, d \in Directions, wr \in BOOLEAN}

\* which documents are open, which is being edited, what is selected in the
\* files browser and what is marked in the current editor
HostConfigs ==
    {[open |-> {}, current |-> None, selected |-> <<>>, marked |-> <<>>],
     [open |-> {"A", "B", "C"}, current |-> "A", selected |-> <<"C", "B">>,
      marked |-> <<>>],
     [open |-> {"A"}, current |-> "A", selected |-> <<"B">>, marked |-> <<2, 7>>],
     [open |-> {"A", "B"}, current |-> "B", selected |-> <<"C", "B", "A">>,
      marked |-> <<>>],
     [open |-> {"C"}, current |-> "C", selected |-> <<"A", "B", "C">>,
      marked |-> <<1, 3>>]}

NoRequest == [op |-> "none"]

Init ==
    /\ container = BookText
    /\ \E c \in HostConfigs :
        /\ editors = [n \in c.open |->
                        Editor(BookText[n], IF n = c.current THEN c.marked ELSE <<>>)]
        /\ current_editor_name = c.current
        /\ searchable_names = [text |-> <<"A", "B">>, styles |-> <<"C">>,
                               selected |-> c.selected]
    /\ regex_cache = <<>>
    /\ ncompiled = <<>>
    /\ savepoints = [added |-> 0, rewound |-> 0]
    /\ modified = FALSE
    /\ panel \in Requests
    /\ req = NoRequest
    /\ res = NoRequest
    /\ nops = 0

Host ==
    [editors |-> editors, current |-> current_editor_name, container |-> container,
     regex_cache |-> regex_cache, ncompiled |-> ncompiled, savepoints |-> savepoints,
     modified |-> modified]

NoScope == [editor |-> None, files |-> <<>>, do_all |-> FALSE, marked |-> FALSE]

\* the orders in which a set can be iterated
IterationOrders(S) == {o \in DupFreeSeqs(S) : Len(o) = Cardinality(S)}

Commit(out) ==
    /\ res' = out.res
    /\ current_editor_name' = out.host.current
    /\ container' = out.host.container
    /\ editors' = out.host.editors
    /\ regex_cache' = out.host.regex_cache
    /\ ncompiled' = out.host.ncompiled
    /\ savepoints' = out.host.savepoints
    /\ modified' = out.host.modified

Validated(action, searches, err) ==
    IF err # ""
    THEN /\ res' = Result(action, "rejected", err, NoScope, 0, <<>>, {}, <<>>)
         /\ UNCHANGED <<container, editors, current_editor_name, regex_cache, ncompiled,
                        savepoints, modified>>
    ELSE \E order \in IterationOrders(
              run_search(searches, action, current_editor_name, searchable_names,
                         Host, <<>>).res.updates) :
            Commit(run_search(searches, action, current_editor_name, searchable_names,
                              Host, order))

\* The host's handler of a search request: it validates the request, and runs
\* the search only if the request is valid.
RunRequest(action, searches) ==
    /\ nops < MaxOps
    /\ nops' = nops + 1
    /\ req' = [op |-> "run_search", action |-> action, searches |-> searches]
    /\ UNCHANGED <<searchable_names, panel>>
    /\ Validated(action, searches,
                 validate_search_request(
                     current_editor_name, searchable_names,
                     has_marked_text(editors, current_editor_name), searches[1]))

\* the user triggers Replace all with the panel as it stands
ReplaceAll == RunRequest("replace-all", panel)

\* the user triggers Count with the panel as it stands
Count == RunRequest("count", panel)

\* the user triggers Find, Replace or Replace and find
Find == RunRequest("find", panel)

Replace == RunRequest("replace", panel)

ReplaceFind == RunRequest("replace-find", panel)

Next == Find \/ Replace \/ ReplaceFind \/ ReplaceAll \/ Count

Spec == Init /\ [][Next]_vars

-----------------------------------------------------------------------------
(* Scope resolution on its own: any group, any current document *)

Idle ==
    /\ regex_cache = <<>>
    /\ ncompiled = <<>>
    /\ savepoints = [added |-> 0, rewound |-> 0]
    /\ modified = FALSE
    /\ panel = <<>>
    /\ req = NoRequest
    /\ res = NoRequest
    /\ nops = 0

InitScope ==
    /\ container = [n \in Names |-> foo]
    /\ \E w \in GroupWheres, g \in DupFreeSeqs(Names) :
          searchable_names = [k \in GroupWheres |-> IF k = w THEN g ELSE <<>>]
    /\ \/ current_editor_name \in Names
       \/ current_editor_name = None
    /\ editors = [n \in Names \cap {current_editor_name} |-> Editor(foo, <<>>)]
    /\ Idle

Scoped(scope) ==
    [op |-> "initialize_search_request", editor |-> scope.editor, where |-> scope.where,
     files |-> scope.files, do_all |-> scope.do_all, marked |-> scope.marked]

ScopeActions == {"find", "replace-all", "count"}

ResolveScope ==
    \E w \in Wheres, d \in Directions, wr \in BOOLEAN, a \in ScopeActions :
        /\ req' = [op |-> "initialize_search_request", action |-> a,
                   state |-> fill_in_search(FooToBaz, w, d, wr)]
        /\ res' = Scoped(initialize_search_request(
                            fill_in_search(FooToBaz, w, d, wr), a,
                            current_editor_name, current_editor_name, searchable_names))
        /\ UNCHANGED <<container, editors, current_editor_name, searchable_names,
                       regex_cache, ncompiled, savepoints, modified, panel, nops>>

NextScope == ResolveScope

SpecScope == InitScope /\ [][NextScope]_vars

-----------------------------------------------------------------------------
(* The pattern cache on its own: any sequence of get_search_regex calls *)

a_dot == <<"a", ".">>
a_esc_dot == <<"a", "\\", ".">>

CacheStates ==
    {[find |-> f, replace |-> baz, mode |-> m, case_sensitive |-> cs, dot_all |-> da,
      direction |-> d, wrap |-> TRUE, where |-> "current"] :
        f \in {a_dot, a_esc_dot, <<"(">>}, m \in {"normal", "regex"},
        cs \in BOOLEAN, da \in BOOLEAN, d \in Directions}

InitCache ==
    /\ container = BookText
    /\ editors = <<>>
    /\ current_editor_name = None
    /\ searchable_names = [text |-> <<"A", "B">>, styles |-> <<"C">>, selected |-> <<>>]
    /\ Idle

Compiled(r) ==
    /\ res' = [op |-> "get_search_regex", raised |-> r.raised, hit |-> r.hit,
               ans |-> r.ans]
    /\ regex_cache' = r.regex_cache
    /\ ncompiled' = r.ncompiled

GetSearchRegex ==
    \E st \in CacheStates :
        /\ nops < MaxCalls
        /\ nops' = nops + 1
        /\ req' = [op |-> "get_search_regex", state |-> st]
        /\ Compiled(get_search_regex(st, regex_cache, ncompiled))
        /\ UNCHANGED <<container, editors, current_editor_name, searchable_names,
                       savepoints, modified, panel>>

NextCache == GetSearchRegex

SpecCache == InitCache /\ [][NextCache]_vars

-----------------------------------------------------------------------------
(* Properties of the scope resolver (checked under SpecScope) *)

Resolved == res.op = "initialize_search_request"

Group == IF req.state.where \in GroupWheres THEN searchable_names[req.state.where]
         ELSE <<>>

CurrentIsMember == current_editor_name \in Range(Group)

\* C1 (as stated): for every `where`, with direction=forward and wrap=true,
\* the resolved files hold every member of the group exactly once and the
\* current document exactly once, as the last element.
C1_AsStated ==
    (Resolved /\ req.state.direction = "down" /\ req.state.wrap
        /\ current_editor_name # None)
    => /\ IsPermutationOf(res.files, Group)
       /\ Occurrences(res.files, current_editor_name) = 1
       /\ res.files[Len(res.files)] = current_editor_name

\* C1 (amended): with direction=forward and wrap=true, for a group scope the
\* resolved files hold every member of the group exactly once; the current
\* document is in them exactly once, as the last element, if it is a member
\* of the group, and otherwise not at all, the files being the group in its
\* given order; for where=current and for marked text the files are empty.
C1_ForwardWrapOrder ==
    (Resolved /\ req.state.direction = "down" /\ req.state.wrap)
    => IF req.state.where \in GroupWheres
       THEN /\ IsPermutationOf(res.files, Group)
            /\ \A n \in Range(res.files) : Occurrences(res.files, n) = 1
            /\ IF CurrentIsMember
               THEN /\ res.files[Len(res.files)] = current_editor_name
                    /\ res.editor = current_editor_name
               ELSE /\ res.files = Group
                    /\ current_editor_name \notin Range(res.files)
                    /\ res.editor = None
       ELSE res.files = <<>>

\* a forward find with wrap in a group of three whose first member is the
\* current document
C1_Witness ==
    /\ Resolved /\ req.state.direction = "down" /\ req.state.wrap
    /\ req.action = "find"
    /\ Len(Group) = 3
    /\ Group[1] = current_editor_name
    /\ res.files[3] = current_editor_name

SameButDirection ==
    /\ req.op = "initialize_search_request"
    /\ req'.op = "initialize_search_request"
    /\ req.state.direction = "down"
    /\ req'.state.direction = "up"
    /\ req'.state.where = req.state.where
    /\ req'.state.wrap = req.state.wrap
    /\ req'.action = req.action

\* C2 (as stated): over the same group, current document and do_exhaustive, the
\* order resolved with direction=backward is the reverse of the order resolved
\* with direction=forward.
C2_AsStated ==
    [][SameButDirection => res'.files = Reverse(res.files)]_vars

\* C2 (amended): when the current document is a member of the group, the
\* backward order is the reverse of the forward order only up to the current
\* document: with do_exhaustive both orders end with the current document and
\* the backward order before it is the reverse of the forward order before it;
\* without do_exhaustive the forward order is the members after the current
\* document and the backward order is the members before it, reversed.
C2_BackwardOrder ==
    [][(SameButDirection /\ req.state.where \in GroupWheres /\ CurrentIsMember)
       => IF res.do_all
          THEN /\ res.files[Len(res.files)] = current_editor_name
               /\ res'.files = Reverse(Front(res.files)) \o <<current_editor_name>>
          ELSE /\ res.files = SubSeq(Group, IndexOf(Group, current_editor_name) + 1,
                                     Len(Group))
               /\ res'.files = Reverse(SubSeq(Group, 1,
                                              IndexOf(Group, current_editor_name) - 1))
      ]_vars

\* a backward exhaustive resolve in a group of three whose middle member is
\* the current document
C2_Witness ==
    /\ Resolved /\ req.state.direction = "up" /\ res.do_all
    /\ Len(Group) = 3
    /\ Group[2] = current_editor_name
    /\ res.files = <<Group[1], Group[3], Group[2]>>

\* C3: for a group scope the current document is not a member of, no starting
\* document is returned and the files are the whole group, in the given order
\* for direction=forward and reversed for direction=backward.
C3_NonMemberOrder ==
    (Resolved /\ req.state.where \in GroupWheres /\ current_editor_name # None
        /\ ~CurrentIsMember)
    => /\ res.editor = None
       /\ res.files = IF req.state.direction = "down" THEN Group ELSE Reverse(Group)

-----------------------------------------------------------------------------
(* Properties of replace-all and count (checked under Spec) *)

Ran(r) == r.op = "run_search" /\ r.outcome = "done"

\* the text of a document as a search reads it: the live buffer of an open
\* document, the persisted text otherwise
TextOf(n) == IF n \in DOMAIN editors THEN editors[n].raw ELSE container[n]

CallsOf(calls, ops) == {i \in 1..Len(calls) : calls[i].op \in ops}

Applications(calls, n, k) ==
    {i \in CallsOf(calls, {"subn", "findall"}) : calls[i].name = n /\ calls[i].k = k}

Processed(r) == {calls.name : calls \in {r.calls[i] : i \in CallsOf(r.calls, {"subn", "findall"})}}

FlipWrap(searches) == [i \in 1..Len(searches) |-> [searches[i] EXCEPT !.wrap = ~@]]

WriteOps == {"replace_data", "write"}

SavepointOps == {"add_savepoint", "rewind_savepoint", "set_modified"}

\* C4: replace-all and count over a group scope apply each pattern to the text
\* of every member of the group exactly once and to no other document,
\* whatever the wrap setting, the direction and the current document; the
\* same request with the other wrap setting, run on the same documents,
\* processes the same documents and reports the same total.
C4_EveryMemberOnce ==
    [][(Ran(res') /\ ~res'.marked /\ req'.searches[1].where \in GroupWheres)
       => /\ \A k \in 1..Len(req'.searches), n \in BookNames :
                Cardinality(Applications(res'.calls, n, k)) =
                    IF n \in Range(searchable_names[req'.searches[1].where])
                    THEN 1 ELSE 0
          /\ Processed(res') = Processed(
                run_search(FlipWrap(req'.searches), req'.action, current_editor_name,
                           searchable_names, Host, <<>>).res)
          /\ res'.count =
                run_search(FlipWrap(req'.searches), req'.action, current_editor_name,
                           searchable_names, Host, <<>>).res.count
      ]_vars

\* a replace-all with wrap off over the text group, the current document a
\* member that is not the last one, that replaced something in every member
C4_Witness ==
    /\ Ran(res) /\ res.action = "replace-all"
    /\ ~req.searches[1].wrap
    /\ req.searches[1].where = "text"
    /\ current_editor_name = "A"
    /\ res.updates = {"A", "B"}

\* C5: a replace-all (scope other than marked) that finds 0 occurrences leaves
\* the text of every document, open or persisted, as it was, rewinds the
\* savepoint it added, and does not mark the book modified.
C5_NothingReplaced ==
    [][(Ran(res') /\ res'.action = "replace-all" /\ ~res'.marked /\ res'.count = 0)
       => /\ container' = container
          /\ editors' = editors
          /\ CallsOf(res'.calls, WriteOps) = {}
          /\ Cardinality(CallsOf(res'.calls, {"add_savepoint"})) = 1
          /\ Cardinality(CallsOf(res'.calls, {"rewind_savepoint"})) = 1
          /\ CallsOf(res'.calls, {"set_modified"}) = {}
          /\ savepoints'.added - savepoints'.rewound = savepoints.added - savepoints.rewound
          /\ modified' = modified
      ]_vars

\* a replace-all that read the documents of its scope and found nothing
C5_Witness ==
    /\ Ran(res) /\ res.action = "replace-all" /\ ~res.marked
    /\ res.count = 0
    /\ Len(res.files) >= 2
    /\ CallsOf(res.calls, {"subn"}) # {}

\* C6: in a replace-all whose scope is not marked, add_savepoint is called
\* first, before any text is read or substituted; after the substitution
\* pass exactly one of rewind_savepoint and set_modified is called, the
\* former if and only if the count is 0; when the count is not 0 every
\* changed text is written back, after the last substitution and before
\* set_modified.
C6_SavepointProtocol ==
    (Ran(res) /\ res.action = "replace-all" /\ ~res.marked)
    => /\ res.calls[1].op = "add_savepoint"
       /\ CallsOf(res.calls, {"add_savepoint"}) = {1}
       /\ CallsOf(res.calls, {"rewind_savepoint", "set_modified"}) = {Len(res.calls)}
       /\ res.calls[Len(res.calls)].op =
              IF res.count = 0 THEN "rewind_savepoint" ELSE "set_modified"
       /\ res.count = 0 => CallsOf(res.calls, WriteOps) = {}
       /\ res.count # 0 =>
            /\ res.updates # {}
            /\ \A n \in res.updates :
                  \E i \in CallsOf(res.calls, WriteOps) :
                      /\ res.calls[i].name = n
                      /\ \A j \in CallsOf(res.calls, {"subn", "get_raw_data", "raw_data"}) :
                            j < i

\* a replace-all that changed two documents
C6_Witness ==
    /\ Ran(res) /\ res.action = "replace-all" /\ ~res.marked
    /\ res.count > 0
    /\ Cardinality(res.updates) = 2

Scenario ==
    /\ Ran(res) /\ res.action = "replace-all"
    /\ req.searches = <<fill_in_search(FooToBaz, "text", "down", TRUE)>>
    /\ current_editor_name = "A"
    /\ res.read = [n \in {"A", "B"} |-> IF n = "A" THEN foo_bar ELSE bar_foo]

\* C7 (as stated): A="foo bar", B="bar foo", foo replaced by baz, scope
\* all-text, current document A, forward, wrap: replace-all processes A once
\* and ends with A="baz bar", B="baz bar" and a total of 2.
C7_AsStated ==
    Scenario
    => /\ Cardinality(Applications(res.calls, "A", 1)) = 1
       /\ TextOf("A") = baz \o <<" ">> \o bar
       /\ TextOf("B") = baz \o <<" ">> \o bar
       /\ res.count = 2

\* C7 (amended): ... ends with A="baz bar", B="bar baz" and a total of 2; the
\* files traversed are B, then A.
C7_Scenario ==
    Scenario
    => /\ res.files = <<"B", "A">>
       /\ Cardinality(Applications(res.calls, "A", 1)) = 1
       /\ Cardinality(Applications(res.calls, "B", 1)) = 1
       /\ TextOf("A") = baz \o <<" ">> \o bar
       /\ TextOf("B") = bar \o <<" ">> \o baz
       /\ res.count = 2

C7_Witness == Scenario /\ res.updates = {"A", "B"}

\* C8: count adds and rewinds no savepoint, does not call set_modified and
\* leaves the text of every document, live or persisted, unchanged, for
\* every scope; a count that follows a count reports the same total.
C8_CountChangesNothing ==
    [][(Ran(res') /\ res'.action = "count")
       => /\ container' = container
          /\ editors' = editors
          /\ savepoints' = savepoints
          /\ modified' = modified
          /\ CallsOf(res'.calls, SavepointOps \cup WriteOps \cup {"subn", "all_in_marked"})
                = {}
          /\ (Ran(res) /\ res.action = "count" /\ req' = req) => res'.count = res.count
      ]_vars

\* two counts in a row over several files, with occurrences found
C8_Witness ==
    /\ Ran(res) /\ res.action = "count"
    /\ nops = 2
    /\ savepoints.added = 0
    /\ Len(res.files) >= 2
    /\ res.count > 0

CountAfterReplaceAll ==
    /\ Ran(res) /\ res.action = "replace-all" /\ res.count > 0
    /\ Ran(res') /\ res'.action = "count"
    /\ req'.searches = req.searches

\* C9 (as stated): a replace-all that changes N>0 occurrences, followed by a
\* count with the same pattern over the same scope, reports 0 occurrences.
C9_AsStated ==
    [][CountAfterReplaceAll => res'.count = 0]_vars

FoldOf(srch, c) == IF srch.case_sensitive THEN c ELSE Lower(c)

\* a single literal search whose replacement is not empty and has no
\* character in common with the find text
FreshLiteral(searches) ==
    /\ Len(searches) = 1
    /\ searches[1].mode = "normal"
    /\ searches[1].replace # <<>>
    /\ {FoldOf(searches[1], c) : c \in Range(searches[1].replace)}
         \cap {FoldOf(searches[1], c) : c \in Range(searches[1].find)} = {}

\* C9 (amended): ... reports 0 occurrences when the request is a single
\* literal-mode search and the text put in place of each occurrence is not
\* empty and has no character in common with the find text (both taken under
\* the case folding the pattern applies, none when the search is case
\* sensitive); in general the count is that of the occurrences
\* in the replaced texts, which need not be 0.
C9_ReplaceAllThenCount ==
    [][(CountAfterReplaceAll /\ FreshLiteral(req.searches)) => res'.count = 0]_vars

\* a count of 0 right after a replace-all that changed persisted and open
\* documents
C9_Witness ==
    /\ Ran(res) /\ res.action = "count" /\ res.count = 0
    /\ FreshLiteral(req.searches)
    /\ nops = 2
    /\ modified
    /\ Len(res.files) >= 2

-----------------------------------------------------------------------------
(* Properties of the pattern cache (checked under SpecCache) *)

\* C10: a call whose key is in the cache returns the object the cache holds
\* and neither compiles nor inserts; no key is ever compiled twice, so all the
\* calls with one key return the same object; an entry is never removed or
\* replaced.
C10_CacheInsertOnly ==
    [][/\ \A k \in DOMAIN regex_cache :
             k \in DOMAIN regex_cache' /\ regex_cache'[k] = regex_cache[k]
       /\ \A k \in DOMAIN ncompiled' : ncompiled'[k] = 1
       /\ CacheKey(req'.state) \in DOMAIN regex_cache
            => /\ res'.raised = ""
               /\ res'.ans = regex_cache[CacheKey(req'.state)]
               /\ regex_cache' = regex_cache
               /\ ncompiled' = ncompiled
       /\ res'.raised = "" => res'.ans = regex_cache'[CacheKey(req'.state)]
      ]_vars

\* a regex-mode request finds in the cache the pattern a literal-mode request
\* with another find text and another dot_all setting put there
C10_Witness ==
    /\ res.op = "get_search_regex" /\ res.hit
    /\ req.state.mode = "regex" /\ req.state.dot_all = FALSE
    /\ req.state.find = a_esc_dot
    /\ ncompiled = [k \in {CacheKey(req.state)} |-> 1]
    /\ nops = 3

-----------------------------------------------------------------------------
(* Properties of the error paths of run_search (checked under Spec) *)

InvalidRegexRaised(r) ==
    r.op = "run_search" /\ r.outcome = "error" /\ r.error = "InvalidRegex"

\* the first search of the request whose pattern does not compile
FirstInvalid(searches) ==
    CHOOSE j \in 1..Len(searches) :
        /\ ParseRegex(SearchRaw(searches[j])) = BadRegex
        /\ \A k \in 1..(j - 1) : ParseRegex(SearchRaw(searches[k])) # BadRegex

\* C11 (as stated): a request whose compilation fails with InvalidRegex leaves
\* the pattern cache exactly as it was, also when the request carries several
\* searches of which one fails.
C11_AsStated ==
    [][InvalidRegexRaised(res') => regex_cache' = regex_cache]_vars

\* C11 (amended): a request whose compilation fails with InvalidRegex adds no
\* entry for the failing pattern and removes or replaces no entry; the only
\* entries it adds are those of the searches that precede the failing one in
\* the request, so the cache is exactly as it was when the failing search is
\* the first one or the preceding patterns were cached already.
C11_FailedCompilation ==
    [][InvalidRegexRaised(res')
       => /\ \A key \in DOMAIN regex_cache :
                key \in DOMAIN regex_cache' /\ regex_cache'[key] = regex_cache[key]
          /\ CacheKey(req'.searches[FirstInvalid(req'.searches)])
                \notin DOMAIN regex_cache'
          /\ DOMAIN regex_cache' =
                DOMAIN regex_cache
                \cup {CacheKey(req'.searches[k]) :
                         k \in 1..(FirstInvalid(req'.searches) - 1)}
      ]_vars

\* a second request that fails on its second search, the cache holding the
\* pattern of its first search from the request before
C11_Witness ==
    /\ InvalidRegexRaised(res)
    /\ FirstInvalid(req.searches) = 2
    /\ nops = 2
    /\ DOMAIN regex_cache = {CacheKey(req.searches[1])}

\* the scope a request needs is absent
ScopeAbsent(state) ==
    \/ current_editor_name = None /\ state.where \in {"current", "selected-text"}
    \/ state.where = "selected" /\ searchable_names["selected"] = <<>>
    \/ state.where = "selected-text" /\ ~has_marked_text(editors, current_editor_name)

ScopeErrors ==
    {"No file is being edited.", "No files are selected in the Files Browser",
     "No text is marked."}

\* C12: a request is rejected exactly when the scope it needs is absent or its
\* find text is empty; the error is a scope error whenever the scope is
\* absent, also when the find text is empty too, and the empty-query error
\* otherwise; a rejected request compiles no pattern and touches nothing.
C12_Validation ==
    [][req'.op = "run_search"
       => /\ (res'.outcome = "rejected")
                <=> (ScopeAbsent(req'.searches[1]) \/ req'.searches[1].find = <<>>)
          /\ ScopeAbsent(req'.searches[1]) => res'.error \in ScopeErrors
          /\ (~ScopeAbsent(req'.searches[1]) /\ req'.searches[1].find = <<>>)
                => res'.error = "No search query specified"
          /\ res'.outcome = "rejected"
                => /\ regex_cache' = regex_cache
                   /\ ncompiled' = ncompiled
                   /\ res'.calls = <<>>
                   /\ UNCHANGED <<editors, container, current_editor_name, savepoints,
                                  modified>>
      ]_vars

\* a find over the selected files, with nothing selected and no find text, is
\* rejected for its scope
C12_Witness ==
    /\ res.op = "run_search" /\ res.outcome = "rejected"
    /\ res.action = "find"
    /\ req.searches[1].where = "selected"
    /\ req.searches[1].find = <<>>
    /\ res.error = "No files are selected in the Files Browser"
    /\ regex_cache = <<>>

\* the search has a pattern that does not compile, or is of function mode
\* and names a function that is not registered
Invalid(srch) ==
    \/ ParseRegex(SearchRaw(srch)) = BadRegex
    \/ srch.mode = "function" /\ srch.replace \notin replace_functions

\* C13: whatever the action, a request that passed validation and has a
\* search, the first or a later one, with an invalid pattern or an
\* unregistered replace function ends with an error; no editor is searched or
\* changed, no document is loaded or written, the current editor stays, and no
\* savepoint is added or rewound.
C13_CompilationError ==
    [][(/\ req'.op = "run_search"
        /\ res'.outcome # "rejected"
        /\ \E k \in 1..Len(req'.searches) : Invalid(req'.searches[k]))
       => /\ res'.outcome = "error"
          /\ res'.error \in {"InvalidRegex", "NoSuchFunction"}
          /\ res'.calls = <<>>
          /\ UNCHANGED <<editors, container, current_editor_name, savepoints, modified>>
      ]_vars

\* a replace-all over several open documents whose second search names an
\* unregistered function
C13_Witness ==
    /\ res.op = "run_search" /\ res.outcome = "error"
    /\ res.action = "replace-all"
    /\ res.error = "NoSuchFunction"
    /\ Len(req.searches) = 2
    /\ ~Invalid(req.searches[1])
    /\ Len(res.files) >= 2
    /\ DOMAIN editors = {"A", "B", "C"}

-----------------------------------------------------------------------------
(* Properties of find, replace and replace-find (checked under Spec) *)

\* the documents of the scope of a request that is not for the marked text
ScopeDocs(where) ==
    IF where = "current" THEN {current_editor_name}
    ELSE Range(searchable_names[where])

\* the pattern a search that compiles is compiled to
PatternOf(srch) == get_search_regex(srch, <<>>, <<>>).ans

\* C14: a find with wrap (the scope being the current document or a group)
\* reports no match only if no document of the scope holds a match of any
\* pattern of the request; so a match before the cursor of the current
\* document is found.
C14_NoMatchWithWrap ==
    [][(/\ res'.op = "run_search" /\ res'.action = "find"
        /\ res'.outcome = "no_match"
        /\ req'.searches[1].wrap
        /\ req'.searches[1].where # "selected-text")
       => \A k \in 1..Len(req'.searches), n \in ScopeDocs(req'.searches[1].where) :
             ~search(PatternOf(req'.searches[k]), TextOf(n))
      ]_vars

\* a find with wrap whose only match lay before the cursor of the current
\* document and was found by the search of the current document that ends the
\* traversal of the group
C14_Witness ==
    /\ res.op = "run_search" /\ res.action = "find" /\ res.found
    /\ req.searches[1].wrap
    /\ req.searches[1].where = "styles"
    /\ current_editor_name = "C"
    /\ nops = 2
    /\ res.calls = <<Call("find", "C", 1), Call("find_complete", "C", 1),
                     Call("show_editor", "C", 0)>>

Replacing(r) ==
    r.op = "run_search" /\ r.action = "replace" /\ r.outcome \in {"replaced", "no_replace"}

\* the pattern of the search matches exactly the text selected in the editor
MatchesSelection(srch, ed) ==
    /\ ed.sel # <<>>
    /\ finditer(PatternOf(srch), SubSeq(ed.raw, ed.sel[1], ed.sel[2])) = <<1>>
    /\ Len(ParseRegex(SearchRaw(srch))) = ed.sel[2] - ed.sel[1] + 1

\* the text of the editor with its selection replaced by what the search
\* puts in its place
SelectionReplacedBy(srch, ed) ==
    SubSeq(ed.raw, 1, ed.sel[1] - 1)
    \o Expand(get_search_function(srch), SubSeq(ed.raw, ed.sel[1], ed.sel[2]))
    \o SubSeq(ed.raw, ed.sel[2] + 1, Len(ed.raw))

ReplaceCalls(r) == CallsOf(r.calls, {"replace"})

\* C15: replace calls only the editor of the current document and changes no
\* other document; the pairs are tried in request order on the selection and
\* the first whose pattern matches it replaces it and ends the operation, so
\* the text changes in the selection only; with no editor, or no pair that
\* applies, the operation reports that nothing can be replaced and every text
\* stays as it was.
C15_Replace ==
    [][Replacing(res')
       => /\ container' = container
          /\ current_editor_name' = current_editor_name
          /\ DOMAIN editors' = DOMAIN editors
          /\ \A n \in DOMAIN editors : n # res'.editor => editors'[n] = editors[n]
          /\ \A i \in 1..Len(res'.calls) :
                /\ res'.calls[i].op \in {"replace", "init_env"}
                /\ res'.calls[i].name = res'.editor
          /\ {res'.calls[i].k : i \in ReplaceCalls(res')}
                = 1..Cardinality(ReplaceCalls(res'))
          /\ res'.editor = None => ~res'.replaced /\ res'.calls = <<>>
          /\ IF res'.replaced
             THEN /\ res'.outcome = "replaced"
                  /\ MatchesSelection(req'.searches[Cardinality(ReplaceCalls(res'))],
                                      editors[res'.editor])
                  /\ \A k \in 1..(Cardinality(ReplaceCalls(res')) - 1) :
                        ~MatchesSelection(req'.searches[k], editors[res'.editor])
                  /\ editors'[res'.editor].raw =
                        SelectionReplacedBy(
                            req'.searches[Cardinality(ReplaceCalls(res'))],
                            editors[res'.editor])
             ELSE /\ res'.outcome = "no_replace"
                  /\ res'.error # ""
                  /\ editors' = editors
                  /\ res'.editor # None
                       => /\ Cardinality(ReplaceCalls(res')) = Len(req'.searches)
                          /\ \A k \in 1..Len(req'.searches) :
                                ~MatchesSelection(req'.searches[k], editors[res'.editor])
      ]_vars

\* a replace in which the first pair does not apply to the selection and the
\* second replaces it
C15_Witness ==
    /\ Replacing(res) /\ res.replaced
    /\ Cardinality(ReplaceCalls(res)) = 2
    /\ editors[res.editor].raw = foo \o <<" ">> \o baz

FindOps == {"find", "find_wrap", "find_complete", "raw_data", "edit_file", "show_editor"}

ReplaceFinding(r) ==
    /\ r.op = "run_search" /\ r.action = "replace-find"
    /\ r.outcome \notin {"rejected", "error"}

\* C16: replace-find replaces first; the find runs only after a replace that
\* succeeded, and then after it; when no pair replaces the selection the
\* operation fails without a find: no editor is searched, no cursor moves, no
\* persisted text is examined, no document is opened or shown.
C16_ReplaceThenFind ==
    [][ReplaceFinding(res')
       => /\ res'.replaced
                <=> /\ res'.editor # None
                    /\ \E k \in 1..Len(req'.searches) :
                          MatchesSelection(req'.searches[k], editors[res'.editor])
          /\ IF res'.replaced
             THEN /\ res'.outcome \in {"found", "no_match"}
                  /\ CallsOf(res'.calls, FindOps) # {}
                  /\ \A i \in ReplaceCalls(res'), j \in CallsOf(res'.calls, FindOps) :
                        i < j
             ELSE /\ res'.outcome = "no_replace"
                  /\ CallsOf(res'.calls, FindOps) = {}
                  /\ UNCHANGED <<editors, container, current_editor_name>>
      ]_vars

\* a replace-find whose replace fails although the document after the current
\* one, which is not open, holds a match the find would have opened it for
C16_Witness ==
    /\ ReplaceFinding(res) /\ ~res.replaced
    /\ res.editor = "A"
    /\ res.files = <<"B">>
    /\ DOMAIN editors = {"A"}
    /\ search(PatternOf(req.searches[1]), container["B"])

\* a find, replace or replace-find without wrap over a group the current
\* document is a member of
OneSided(r, q) ==
    /\ r.op = "run_search" /\ r.outcome # "rejected"
    /\ r.action \in {"find", "replace", "replace-find"}
    /\ ~q.searches[1].wrap
    /\ q.searches[1].where \in GroupWheres
    /\ current_editor_name \in Range(searchable_names[q.searches[1].where])

MembersAfter(g, n) == SubSeq(g, IndexOf(g, n) + 1, Len(g))

MembersBefore(g, n) == SubSeq(g, 1, IndexOf(g, n) - 1)

\* C18: for a find, replace or replace-find without wrap over a group the
\* current document is a member of, the files resolved are the members after
\* the current document, in group order, for direction=forward, and the
\* members before it, in reverse order, for direction=backward; a find
\* searches, reads, opens and shows only those files, and its only call to the
\* editor of the current document is the find from its cursor.
C18_OneSidedRest ==
    [][OneSided(res', req')
       => /\ res'.editor = current_editor_name
          /\ res'.files =
                IF req'.searches[1].direction = "down"
                THEN MembersAfter(searchable_names[req'.searches[1].where],
                                  current_editor_name)
                ELSE Reverse(MembersBefore(searchable_names[req'.searches[1].where],
                                           current_editor_name))
          /\ current_editor_name \notin Range(res'.files)
          /\ \A i \in 1..Len(res'.calls) :
                IF res'.calls[i].name = current_editor_name
                THEN res'.calls[i].op \in {"find", "replace", "init_env"}
                ELSE /\ res'.calls[i].op
                            \in {"find_complete", "raw_data", "edit_file", "show_editor"}
                     /\ res'.calls[i].name \in Range(res'.files)
      ]_vars

\* a forward find without wrap from the middle document of the selected files:
\* nothing is left after its cursor, and the match is found in the document
\* that follows it
C18_Witness ==
    /\ res.op = "run_search" /\ res.action = "find" /\ res.found
    /\ ~req.searches[1].wrap
    /\ req.searches[1].where = "selected"
    /\ searchable_names["selected"] = <<"C", "B", "A">>
    /\ res.editor = "B"
    /\ res.files = <<"A">>
    /\ res.calls = <<Call("find", "B", 1), Call("find_complete", "A", 1),
                     Call("show_editor", "A", 0)>>

-----------------------------------------------------------------------------
(* Properties of the batch pass of replace-all (checked under Spec) *)

ReplacedAll(r) == Ran(r) /\ r.action = "replace-all" /\ ~r.marked

\* the documents a replace-all or count that is not for the marked text works on
ScopeFiles(r) ==
    IF r.files # <<>> THEN Range(r.files)
    ELSE IF r.editor # None THEN {r.editor} ELSE {}

\* the text raw after the first k searches have been substituted in it, one
\* after the other
RECURSIVE Staged(_, _, _)
Staged(raw, searches, k) ==
    IF k = 0 THEN raw
    ELSE subn(PatternOf(searches[k]), get_search_function(searches[k]),
              Staged(raw, searches, k - 1)).raw

\* the number of occurrences the search k has in the text the searches before
\* it made of raw
OccurrencesAt(raw, searches, k) ==
    findall_len(PatternOf(searches[k]), Staged(raw, searches, k - 1))

Substituted(raw, searches) ==
    \E k \in 1..Len(searches) : OccurrencesAt(raw, searches, k) > 0

\* C17: a replace-all that is not for the marked text writes exactly the
\* documents of its scope in which a pattern had an occurrence, each once: an
\* open one through replace_data of its editor, its persisted text staying as
\* it was, and one that is not open to persisted storage, without opening it;
\* every other document keeps its editor and its persisted text.
C17_WritesExactlyTheChanged ==
    [][ReplacedAll(res')
       => /\ {res'.calls[i].name : i \in CallsOf(res'.calls, WriteOps)}
                = {n \in ScopeFiles(res') : Substituted(TextOf(n), req'.searches)}
          /\ \A i, j \in CallsOf(res'.calls, WriteOps) :
                res'.calls[i].name = res'.calls[j].name => i = j
          /\ \A i \in CallsOf(res'.calls, WriteOps) :
                res'.calls[i].op = "replace_data" <=> res'.calls[i].name \in DOMAIN editors
          /\ DOMAIN editors' = DOMAIN editors
          /\ \A n \in DOMAIN editors :
                IF n \in ScopeFiles(res') /\ Substituted(TextOf(n), req'.searches)
                THEN /\ editors'[n].raw
                           = Staged(TextOf(n), req'.searches, Len(req'.searches))
                     /\ container'[n] = container[n]
                ELSE /\ editors'[n] = editors[n]
                     /\ container'[n] = container[n]
          /\ \A n \in BookNames \ DOMAIN editors :
                container'[n] =
                    IF n \in ScopeFiles(res') /\ Substituted(TextOf(n), req'.searches)
                    THEN Staged(TextOf(n), req'.searches, Len(req'.searches))
                    ELSE container[n]
      ]_vars

\* a replace-all over the selected files that changed two documents that are
\* not open and left the open one, which has no occurrence, alone
C17_Witness ==
    /\ ReplacedAll(res)
    /\ res.files = <<"A", "B", "C">>
    /\ DOMAIN editors = {"C"}
    /\ {res.calls[i].name : i \in CallsOf(res.calls, {"write"})} = {"A", "B"}
    /\ CallsOf(res.calls, {"replace_data"}) = {}
    /\ editors["C"].raw = Foo

ReadOps == {"get_raw_data", "raw_data"}

\* C19: in a replace-all that is not for the marked text, the text of every
\* document of the scope has been read and every pattern has been applied to
\* every one of them before the first document is written: no read and no
\* substitution follows a write.
C19_StagedBeforeWritten ==
    ReplacedAll(res)
    => \A w \in CallsOf(res.calls, WriteOps) :
          /\ Cardinality({i \in CallsOf(res.calls, ReadOps) : i < w})
                = Cardinality(ScopeFiles(res))
          /\ Cardinality({i \in CallsOf(res.calls, {"subn"}) : i < w})
                = Len(req.searches) * Cardinality(ScopeFiles(res))
          /\ \A i \in CallsOf(res.calls, ReadOps \cup {"subn", "init_env"}) : i < w

\* a replace-all of two pairs that wrote two documents
C19_Witness ==
    /\ ReplacedAll(res)
    /\ Len(req.searches) = 2
    /\ Cardinality(CallsOf(res.calls, WriteOps)) = 2
    /\ Cardinality(CallsOf(res.calls, {"subn"})) = 4

\* the files do_all iterates over, in its order
Traversed(r) ==
    IF r.files # <<>> THEN r.files
    ELSE IF r.editor # None THEN <<r.editor>> ELSE <<>>

RECURSIVE SumOf(_)
SumOf(s) == IF s = <<>> THEN 0 ELSE Head(s) + SumOf(Tail(s))

\* the occurrences every search has, in request order, in every document of
\* files, each search counted in the text the searches before it produced
StagedOccurrences(files, searches) ==
    SumOf([i \in 1..(Len(searches) * Len(files)) |->
             OccurrencesAt(TextOf(files[((i - 1) % Len(files)) + 1]), searches,
                           ((i - 1) \div Len(files)) + 1)])

\* C20: a replace-all that is not for the marked text applies the pairs in
\* request order, each to every document of the scope before the next pair is
\* applied to any; the text a document ends with is the result of
\* substituting the pairs one after the other, each in the text the pairs
\* before it produced; the total is the sum of the substitutions so made.
C20_PairsCompose ==
    [][ReplacedAll(res')
       => /\ \A i, j \in CallsOf(res'.calls, {"subn"}) :
                i < j =>
                    \/ res'.calls[i].k < res'.calls[j].k
                    \/ /\ res'.calls[i].k = res'.calls[j].k
                       /\ IndexOf(Traversed(res'), res'.calls[i].name)
                            < IndexOf(Traversed(res'), res'.calls[j].name)
          /\ Cardinality(CallsOf(res'.calls, {"subn"}))
                = Len(req'.searches) * Len(Traversed(res'))
          /\ \A n \in ScopeFiles(res') :
                TextOf(n)' = Staged(TextOf(n), req'.searches, Len(req'.searches))
          /\ res'.count = StagedOccurrences(Traversed(res'), req'.searches)
      ]_vars

\* bar replaced by foo and then foo by baz in "foo bar" and "bar foo": the
\* second pair replaces what the first one put there too, six substitutions
C20_Witness ==
    /\ ReplacedAll(res)
    /\ req.searches[1].find = bar /\ req.searches[1].replace = foo
    /\ Len(req.searches) = 2
    /\ res.read = [n \in {"A", "B"} |-> IF n = "A" THEN foo_bar ELSE bar_foo]
    /\ res.count = 6
    /\ TextOf("A") = baz \o <<" ">> \o baz

-----------------------------------------------------------------------------
(* Properties of the traversal of find (checked under Spec) *)

Finding(r) ==
    r.op = "run_search" /\ r.action = "find" /\ r.outcome \in {"found", "no_match"}

\* the calls of do_find that try a pattern on a text
TryOps == {"find", "find_wrap", "find_complete", "raw_data"}

Tries(r) == CallsOf(r.calls, TryOps)

\* where a call stands in the pass one pattern makes over the scope: the
\* current editor from its cursor, the same with wrap, then the files in order
Place(r, c) ==
    IF c.op = "find" THEN 0
    ELSE IF c.op = "find_wrap" THEN 1
    ELSE 1 + IndexOf(r.files, c.name)

\* the places of a whole pass
Candidates(r, wrap) ==
    (IF r.editor # None THEN {0} ELSE {})
    \cup (IF r.editor # None /\ wrap /\ r.files = <<>> THEN {1} ELSE {})
    \cup {1 + i : i \in 1..Len(r.files)}

PlacesOf(r, k) == {Place(r, r.calls[i]) : i \in {j \in Tries(r) : r.calls[j].k = k}}

LastTry(r) == CHOOSE i \in Tries(r) : \A j \in Tries(r) : j <= i

\* C21: a find tries the patterns in request order, the loop over the patterns
\* outermost: a pattern is tried in the current document and then in every
\* file of the scope, in resolved order, before the next pattern is tried
\* anywhere; the first match ends the operation: the call that found it is the
\* last that searches a text, no document is read or opened after it, and the
\* document it was found in is the current one afterwards.
C21_PatternLoopOutermost ==
    [][Finding(res')
       => /\ res'.found <=> res'.outcome = "found"
          /\ \A i, j \in Tries(res') :
                i < j =>
                    \/ res'.calls[i].k < res'.calls[j].k
                    \/ /\ res'.calls[i].k = res'.calls[j].k
                       /\ \/ Place(res', res'.calls[i]) < Place(res', res'.calls[j])
                          \/ /\ Place(res', res'.calls[i]) = Place(res', res'.calls[j])
                             /\ res'.calls[i].op = "raw_data"
                             /\ res'.calls[j].op = "find_complete"
          /\ IF res'.found
             THEN /\ Tries(res') # {}
                  /\ res'.calls[LastTry(res')].op \in {"find", "find_wrap", "find_complete"}
                  /\ \A i \in (LastTry(res') + 1)..Len(res'.calls) :
                        res'.calls[i] = Call("show_editor",
                                             res'.calls[LastTry(res')].name, 0)
                  /\ current_editor_name' = res'.calls[LastTry(res')].name
                  /\ editors'[current_editor_name'].sel # <<>>
                  /\ \A k \in 1..Len(req'.searches) :
                        PlacesOf(res', k) =
                            IF k < res'.calls[LastTry(res')].k
                            THEN Candidates(res', req'.searches[1].wrap)
                            ELSE IF k > res'.calls[LastTry(res')].k THEN {}
                            ELSE {c \in Candidates(res', req'.searches[1].wrap) :
                                     c <= Place(res', res'.calls[LastTry(res')])}
             ELSE /\ \A k \in 1..Len(req'.searches) :
                        PlacesOf(res', k) = Candidates(res', req'.searches[1].wrap)
                  /\ UNCHANGED <<editors, current_editor_name>>
      ]_vars

\* a find of two patterns over three files: the first pattern is tried in the
\* current document and in every file and matches nowhere, the second is
\* found in the first file that holds it, and the file after it is not read
\* for the second pattern
C21_Witness ==
    /\ Finding(res) /\ res.found
    /\ Len(req.searches) = 2
    /\ res.files = <<"A", "B", "C">>
    /\ PlacesOf(res, 1) = {0, 2, 3, 4}
    /\ PlacesOf(res, 2) = {0, 2}
    /\ current_editor_name = "A"

\* a find, or the find of a replace-find
Searching(r) ==
    /\ r.op = "run_search" /\ r.action \in {"find", "replace-find"}
    /\ r.outcome \in {"found", "no_match"}

Opened(r) == {r.calls[i].name : i \in CallsOf(r.calls, {"edit_file"})}

\* C22: during a find the persisted text of a document is read only if the
\* document is not open, and the document is opened (edit_file) if and only if
\* the pattern at hand matches that text; so no document is opened whose
\* persisted text holds no match, and a find that ends without a match opens
\* no document; the persisted texts stay as they were.
C22_OpenedOnlyOnMatch ==
    [][Searching(res')
       => /\ container' = container
          /\ \A i \in CallsOf(res'.calls, {"raw_data"}) :
                /\ res'.calls[i].name \notin DOMAIN editors
                /\ search(PatternOf(req'.searches[res'.calls[i].k]),
                          container[res'.calls[i].name])
                     <=> /\ i < Len(res'.calls)
                         /\ res'.calls[i + 1] = Call("edit_file", res'.calls[i].name, 0)
          /\ \A i \in CallsOf(res'.calls, {"edit_file"}) :
                /\ i > 1
                /\ res'.calls[i - 1].op = "raw_data"
                /\ res'.calls[i - 1].name = res'.calls[i].name
          /\ \A i \in CallsOf(res'.calls, {"find_complete"}) :
                \/ res'.calls[i].name \in DOMAIN editors
                \/ i > 1 /\ res'.calls[i - 1] = Call("edit_file", res'.calls[i].name, 0)
          /\ DOMAIN editors' = DOMAIN editors \cup Opened(res')
          /\ \A n \in DOMAIN editors' \ DOMAIN editors :
                \E k \in 1..Len(req'.searches) :
                    search(PatternOf(req'.searches[k]), container[n])
          /\ res'.outcome = "no_match" => Opened(res') = {} /\ DOMAIN editors' = DOMAIN editors
      ]_vars

\* a find that read the persisted text of two documents for a pattern neither
\* holds and opened neither, then opened the first for the next pattern and
\* never opened the second
C22_Witness ==
    /\ Searching(res) /\ res.found
    /\ {res.calls[i].name : i \in {j \in CallsOf(res.calls, {"raw_data"}) :
                                      res.calls[j].k = 1}} = {"A", "B"}
    /\ Opened(res) = {"A"}
    /\ DOMAIN editors = {"A", "C"}
    /\ ~search(PatternOf(req.searches[1]), container["A"])

-----------------------------------------------------------------------------
(* Properties of the savepoints (checked under Spec) *)

MarkedReplaceAll(r) == Ran(r) /\ r.action = "replace-all" /\ r.marked

\* the editor after the marked-region replace of the first k searches, one
\* after the other
RECURSIVE MarkedAfter(_, _, _)
MarkedAfter(ed, searches, k) ==
    IF k = 0 THEN ed
    ELSE all_in_marked(MarkedAfter(ed, searches, k - 1), PatternOf(searches[k]),
                       get_search_function(searches[k])).editor

\* what the marked-region replace of the search k reports
MarkedCount(ed, searches, k) ==
    all_in_marked(MarkedAfter(ed, searches, k - 1), PatternOf(searches[k]),
                  get_search_function(searches[k])).count

\* C23: a replace-all over the marked text calls the marked-region replace of
\* the current editor once for every pair, in request order, and nothing
\* else; it reports the sum of what these calls report; only the marked text
\* of the current document can change: every other editor and every
\* persisted text stay as they were; no savepoint is added or rewound and
\* set_modified is not called, whatever the number of occurrences replaced.
C23_MarkedReplaceAll ==
    [][MarkedReplaceAll(res')
       => /\ res'.editor = current_editor_name
          /\ current_editor_name' = current_editor_name
          /\ res'.calls = [k \in 1..Len(req'.searches) |->
                              Call("all_in_marked", current_editor_name, k)]
          /\ res'.count = SumOf([k \in 1..Len(req'.searches) |->
                                   MarkedCount(editors[current_editor_name],
                                               req'.searches, k)])
          /\ container' = container
          /\ DOMAIN editors' = DOMAIN editors
          /\ \A n \in DOMAIN editors : n # current_editor_name => editors'[n] = editors[n]
          /\ editors'[current_editor_name] =
                MarkedAfter(editors[current_editor_name], req'.searches,
                            Len(req'.searches))
          /\ SubSeq(editors'[current_editor_name].raw, 1,
                    editors[current_editor_name].marked[1] - 1)
                = SubSeq(editors[current_editor_name].raw, 1,
                         editors[current_editor_name].marked[1] - 1)
          /\ SubSeq(editors'[current_editor_name].raw,
                    editors'[current_editor_name].marked[2] + 1,
                    Len(editors'[current_editor_name].raw))
                = SubSeq(editors[current_editor_name].raw,
                         editors[current_editor_name].marked[2] + 1,
                         Len(editors[current_editor_name].raw))
          /\ CallsOf(res'.calls, SavepointOps) = {}
          /\ savepoints' = savepoints
          /\ modified' = modified
      ]_vars

\* bar replaced by foo and then foo by baz in the marked text "oo bar": each
\* pair replaces one occurrence, the letter before the marked text stays
C23_Witness ==
    /\ MarkedReplaceAll(res)
    /\ Len(req.searches) = 2
    /\ res.count = 2
    /\ current_editor_name = "A"
    /\ editors["A"].raw = foo \o <<" ">> \o baz
    /\ savepoints.added = 0 /\ ~modified

\* the savepoints added and not rewound
Balance == savepoints.added - savepoints.rewound

NumCalls(r, op) == Cardinality(CallsOf(r.calls, {op}))

-----------------------------------------------------------------------------
(* Property of replace-find (checked under Spec) *)

\* a replace-find whose replace succeeded and whose find exhausted the scope
ReplacedNotFound(r) ==
    ReplaceFinding(r) /\ r.replaced /\ r.outcome = "no_match"

\* C25: a replace-find whose replace succeeds and whose find then exhausts
\* the scope reports that no match was found, and the replacement stays: the
\* text of the current document is the text it had with the selection
\* replaced; nothing else changes, no savepoint is added or rewound and
\* set_modified is not called.
C25_ReplacedThenNoMatch ==
    [][ReplacedNotFound(res')
       => /\ res'.error = "No matches were found"
          /\ ~res'.found
          /\ res'.editor = current_editor_name
          /\ current_editor_name' = current_editor_name
          /\ MatchesSelection(req'.searches[Cardinality(ReplaceCalls(res'))],
                              editors[current_editor_name])
          /\ editors'[current_editor_name].raw =
                SelectionReplacedBy(req'.searches[Cardinality(ReplaceCalls(res'))],
                                    editors[current_editor_name])
          /\ editors'[current_editor_name].sel = <<>>
          /\ DOMAIN editors' = DOMAIN editors
          /\ \A n \in DOMAIN editors : n # current_editor_name => editors'[n] = editors[n]
          /\ container' = container
          /\ \A i \in ReplaceCalls(res'), j \in Tries(res') : i < j
          /\ Tries(res') # {}
          /\ CallsOf(res'.calls, SavepointOps \cup WriteOps) = {}
          /\ savepoints' = savepoints
          /\ modified' = modified
      ]_vars

\* the bar a find selected in "foo bar" is replaced by foo; the find that
\* follows makes two tries or more behind the cursor, finds nothing, and
\* "foo foo" stays
C25_Witness ==
    /\ ReplacedNotFound(res)
    /\ current_editor_name = "A"
    /\ editors["A"].raw = foo \o <<" ">> \o foo
    /\ Cardinality(Tries(res)) >= 2
    /\ savepoints.added = 0

====
